---- MODULE Spec2Model ----
(***************************************************************************)
(* Sheep Rentals backend: the Record Store tables and the Express route    *)
(* handlers of routes/applications.ts, routes/payments.ts and              *)
(* routes/properties.ts.  Every handler is a sequence of steps separated   *)
(* by its awaited store calls; requests of different callers interleave    *)
(* at those awaits.                                                        *)
(***************************************************************************)
EXTENDS Integers, Sequences, FiniteSets, Bags, TLC

\* ---------------------------------------------------------------- bounds
MaxProps == 1
MaxApps == 2
MaxInFlight == 2
MaxPays == 2
MaxBulk == 2
MaxBulkInFlight == 1
MaxClock == 3

\* ---------------------------------------------------------------- callers
Landlords == {"L1", "L2"}
Renters == {"R1", "R2"}
NoUser == "anon"
Callers == Landlords \cup Renters \cup {NoUser}

userType(u) == IF u \in Landlords THEN "landlord" ELSE "renter"

PropIds == 1..MaxProps
AppIds == 1..MaxApps
PayIds == 1..MaxPays

PropertyStatuses == {"available", "rented", "maintenance", "inactive"}
ApplicationStatuses == {"pending", "approved", "rejected", "withdrawn"}
PaymentStatuses == {"pending", "paid", "overdue", "cancelled"}

\* a key with no item in the table
NoProperty == [landlordId |-> "none", status |-> "none"]
NoApplication == [propertyId |-> 0, renterId |-> "none", landlordId |-> "none",
                  status |-> "none", createdAt |-> ""]

NoPayment == [rentalAgreementId |-> 0, propertyId |-> 0, renterId |-> "none",
              landlordId |-> "none", status |-> "none", paidDate |-> "",
              amount |-> 0, dueDate |-> "", createdAt |-> ""]

\* RENTAL_AGREEMENTS table: no route writes it, its items are given
AgreementIds == {1, 2, 3}
AgreementStatuses == {"active", "expired", "terminated"}
NoAgreement == [propertyId |-> 0, landlordId |-> "none", renterId |-> "none",
                status |-> "none"]
rentalAgreements ==
    [g \in AgreementIds |->
        CASE g = 1 -> [propertyId |-> 1, landlordId |-> "L1", renterId |-> "R1",
                       status |-> "active"]
          [] g = 2 -> [propertyId |-> 2, landlordId |-> "L2", renterId |-> "R2",
                       status |-> "expired"]
          [] OTHER -> NoAgreement]

\* ---------------------------------------------------------------- dates
\* Date.prototype.toISOString of the instant t (day t of January 2026)
toISOString(t) == "2026-01-0" \o ToString(t) \o "T00:00:00.000Z"

\* the time value of an invalid Date
NaN == -1

\* new Date(s).getTime(): an ISO date-time, a date-only form (UTC midnight), and
\* NaN for a string that is no date
Parsed ==
    [s \in {toISOString(t) : t \in 1..9} \cup {"2026-01-0" \o ToString(t) : t \in 1..9} |->
        IF \E t \in 1..9 : s = toISOString(t)
        THEN CHOOSE t \in 1..9 : s = toISOString(t)
        ELSE CHOOSE t \in 1..9 : s = "2026-01-0" \o ToString(t)]
    @@ ("01/03/2026" :> 3)
getTime(s) == IF s \in DOMAIN Parsed THEN Parsed[s] ELSE NaN

VARIABLES
    properties,        \* PROPERTIES table: id -> item
    propsCreated,      \* number of property ids handed out by uuidv4
    applications,      \* APPLICATIONS table: id -> item
    inflight,          \* requests being served: a bag of requests
    resp,              \* the response sent by the latest step (code 0: none)
    constAssignThrows, \* whether `updateExpression +=` on a const throws in this build
    payments,          \* PAYMENTS table: id -> item
    users,             \* NoUserS table: the ids that have a profile item
    now                \* the clock, in days

vars == <<properties, propsCreated, applications, inflight, resp, constAssignThrows, payments, users, now>>

\* A request is in flight from its first store read to its response.  The
\* request's arrival, the role gate and the field validation run synchronously
\* before the first awaited store call and touch no shared state, so they are
\* folded into the step of that first store call.
Running(op, pc, user, id, status, snapLandlord, snapProp) ==
    [op |-> op, pc |-> pc, user |-> user, id |-> id, status |-> status,
     snapLandlord |-> snapLandlord, snapProp |-> snapProp,
     paidDate |-> "", notes |-> FALSE, ids |-> <<>>, results |-> <<>>,
     amount |-> 0, dueDate |-> "", createdAt |-> "",
     propertiesResult |-> <<>>, applicationsResult |-> <<>>,
     rentalAgreementsResult |-> <<>>]

appsCreated == Cardinality({a \in AppIds : applications[a] # NoApplication})

NoResponse == [code |-> 0, data |-> <<>>, message |-> "", user |-> "none"]
Response(code) == [code |-> code, data |-> <<>>, message |-> "", user |-> "none"]
Message(code, message) == [code |-> code, data |-> <<>>, message |-> message, user |-> "none"]
\* res.json({ success: true, data }) to the caller u
Data(u, data) == [code |-> 200, data |-> data, message |-> "", user |-> u]

HasCapacity == BagCardinality(inflight) < MaxInFlight
\* no request is being served
Idle == inflight = EmptyBag
InFlight == BagToSet(inflight)

\* ---------------------------------------------------------------- responses
\* createError(message, statusCode) thrown to the error handler, which answers
\* with that status code; an exception without one is answered with 500
reject(code) == resp' = Response(code) /\ UNCHANGED inflight
start(req) == inflight' = inflight (+) SetToBag({req}) /\ resp' = NoResponse
\* the handler r runs on to its next awaited store call, its locals now q
await(r, q) ==
    /\ inflight' = (inflight (-) SetToBag({r})) (+) SetToBag({q})
    /\ resp' = NoResponse
continue(r, pc) == await(r, [r EXCEPT !.pc = pc])
respond(r, code) == inflight' = inflight (-) SetToBag({r}) /\ resp' = Response(code)

\* requireLandlord / requireRenter: 0 when the request may pass
\* mutant: the role of an authenticated caller is not looked at
requireLandlord_AnyRole(u) == IF u = NoUser THEN 401 ELSE 0

requireLandlord(u) == IF u = NoUser THEN 401 ELSE IF userType(u) # "landlord" THEN 403 ELSE 0
requireRenter(u) == IF u = NoUser THEN 401 ELSE IF userType(u) # "renter" THEN 403 ELSE 0

\* mutant: the status is set only on a property that is available
updateProperty_OnlyAvailable(tbl, id, st) ==
    IF tbl[id].status = "available" THEN [tbl EXCEPT ![id].status = st] ELSE tbl

\* DynamoDB update: SET on the item with that key, creating it when absent
updateProperty(tbl, id, st) == [tbl EXCEPT ![id].status = st]

AppStatusInputs == ApplicationStatuses \cup {"", "bogus"}
PropStatusInputs == {"", "available", "maintenance"}

\* ---------------------------------------------------------------- POST /applications
\* mutant: the status of the property is not looked at
SubmitGetProperty_AnyStatus(u, p, valid) ==
    /\ HasCapacity
    /\ UNCHANGED <<properties, propsCreated, applications, constAssignThrows, payments, users, now>>
    /\ IF requireRenter(u) # 0 THEN reject(requireRenter(u))
       ELSE IF ~valid THEN reject(400)
       ELSE \/ reject(500)
            \/ IF properties[p] = NoProperty THEN reject(404)
               ELSE start(Running("submit", "scan", u, p, "none",
                                     properties[p].landlordId, 0))

SubmitGetProperty(u, p, valid) ==
    /\ HasCapacity
    /\ UNCHANGED <<properties, propsCreated, applications, constAssignThrows, payments, users, now>>
    /\ IF requireRenter(u) # 0 THEN reject(requireRenter(u))
       ELSE IF ~valid THEN reject(400)
       ELSE \/ reject(500)
            \/ IF properties[p] = NoProperty THEN reject(404)
               ELSE IF properties[p].status # "available" THEN reject(400)
               ELSE start(Running("submit", "scan", u, p, "none",
                                     properties[p].landlordId, 0))

\* mutant: the scan skips withdrawn and rejected applications
existingApplication_ActiveOnly(apps, propertyId, renterId) ==
    {a \in AppIds : apps[a] # NoApplication /\ apps[a].propertyId = propertyId
                    /\ apps[a].renterId = renterId
                    /\ apps[a].status \notin {"withdrawn", "rejected"}}

\* scan with FilterExpression 'propertyId = :propertyId AND renterId = :renterId'
existingApplication(apps, propertyId, renterId) ==
    {a \in AppIds : apps[a] # NoApplication /\ apps[a].propertyId = propertyId
                    /\ apps[a].renterId = renterId}

SubmitScan(r) ==
    /\ r \in InFlight /\ r.op = "submit" /\ r.pc = "scan"
    /\ UNCHANGED <<properties, propsCreated, applications, constAssignThrows, payments, users, now>>
    /\ \/ respond(r, 500)
       \/ IF existingApplication(applications, r.id, r.user) # {} THEN respond(r, 409)
          ELSE await(r, [r EXCEPT !.pc = "put", !.createdAt = toISOString(now)])

SubmitPut(r) ==
    /\ r \in InFlight /\ r.op = "submit" /\ r.pc = "put"
    /\ appsCreated < MaxApps
    /\ UNCHANGED <<properties, propsCreated, constAssignThrows, payments, users, now>>
    /\ \/ respond(r, 500) /\ UNCHANGED applications
       \/ /\ applications' = [applications EXCEPT ![appsCreated + 1] =
                [propertyId |-> r.id, renterId |-> r.user, landlordId |-> r.snapLandlord,
                 status |-> "pending", createdAt |-> r.createdAt]]
          /\ respond(r, 201)

\* ---------------------------------------------------------------- PATCH /applications/:id/status
AppStatusGet(u, a, st, notes) ==
    /\ HasCapacity
    /\ UNCHANGED <<properties, propsCreated, applications, constAssignThrows, payments, users, now>>
    /\ IF requireLandlord(u) # 0 THEN reject(requireLandlord(u))
       ELSE IF st = "" THEN reject(400)
       ELSE IF st \notin ApplicationStatuses THEN reject(400)
       ELSE \/ reject(500)
            \/ IF applications[a] = NoApplication THEN reject(404)
               ELSE IF applications[a].landlordId # u THEN reject(403)
               ELSE IF notes /\ constAssignThrows THEN reject(500)
               ELSE start(Running("appStatus", "update", u, a, st, "none",
                                     applications[a].propertyId))

\* mutant: the property write follows every status but pending
AppStatusUpdate_FlipsOnAnyDecision(r) ==
    /\ r \in InFlight /\ r.op = "appStatus" /\ r.pc = "update"
    /\ UNCHANGED <<properties, propsCreated, constAssignThrows, payments, users, now>>
    /\ \/ respond(r, 500) /\ UNCHANGED applications
       \/ /\ applications' = [applications EXCEPT ![r.id].status = r.status]
          /\ IF r.status # "pending" THEN continue(r, "propUpdate") ELSE respond(r, 200)

AppStatusUpdate(r) ==
    /\ r \in InFlight /\ r.op = "appStatus" /\ r.pc = "update"
    /\ UNCHANGED <<properties, propsCreated, constAssignThrows, payments, users, now>>
    /\ \/ respond(r, 500) /\ UNCHANGED applications
       \/ /\ applications' = [applications EXCEPT ![r.id].status = r.status]
          /\ IF r.status = "approved" THEN continue(r, "propUpdate") ELSE respond(r, 200)

\* mutant: a failed property write puts the application back to pending
AppStatusPropertyUpdate_RollsBack(r) ==
    /\ r \in InFlight /\ r.op = "appStatus" /\ r.pc = "propUpdate"
    /\ UNCHANGED <<propsCreated, constAssignThrows, payments, users, now>>
    /\ \/ /\ respond(r, 500) /\ UNCHANGED properties
          /\ applications' = [applications EXCEPT ![r.id].status = "pending"]
       \/ /\ properties' = updateProperty(properties, r.snapProp, "rented")
          /\ respond(r, 200) /\ UNCHANGED applications

AppStatusPropertyUpdate(r) ==
    /\ r \in InFlight /\ r.op = "appStatus" /\ r.pc = "propUpdate"
    /\ UNCHANGED <<propsCreated, applications, constAssignThrows, payments, users, now>>
    /\ \/ respond(r, 500) /\ UNCHANGED properties
       \/ /\ properties' = updateProperty(properties, r.snapProp, "rented")
          /\ respond(r, 200)

\* ---------------------------------------------------------------- PATCH /applications/:id/withdraw
WithdrawGet(u, a) ==
    /\ HasCapacity
    /\ UNCHANGED <<properties, propsCreated, applications, constAssignThrows, payments, users, now>>
    /\ IF requireRenter(u) # 0 THEN reject(requireRenter(u))
       ELSE \/ reject(500)
            \/ IF applications[a] = NoApplication THEN reject(404)
               ELSE IF applications[a].renterId # u THEN reject(403)
               ELSE IF applications[a].status # "pending" THEN reject(400)
               ELSE start(Running("withdraw", "update", u, a, "none", "none", 0))

WithdrawUpdate(r) ==
    /\ r \in InFlight /\ r.op = "withdraw" /\ r.pc = "update"
    /\ UNCHANGED <<properties, propsCreated, constAssignThrows, payments, users, now>>
    /\ \/ respond(r, 500) /\ UNCHANGED applications
       \/ /\ applications' = [applications EXCEPT ![r.id].status = "withdrawn"]
          /\ respond(r, 200)

\* ---------------------------------------------------------------- POST /properties
PropertyCreate(u, valid) ==
    /\ HasCapacity
    /\ UNCHANGED <<applications, constAssignThrows, payments, users, now>>
    /\ IF requireLandlord(u) # 0
       THEN reject(requireLandlord(u)) /\ UNCHANGED <<properties, propsCreated>>
       ELSE IF ~valid THEN reject(400) /\ UNCHANGED <<properties, propsCreated>>
       ELSE \/ reject(500) /\ UNCHANGED <<properties, propsCreated>>
            \/ /\ propsCreated < MaxProps
               /\ properties' = [properties EXCEPT ![propsCreated + 1] =
                      [landlordId |-> u, status |-> "available"]]
               /\ propsCreated' = propsCreated + 1
               /\ reject(201)

\* ---------------------------------------------------------------- PUT /properties/:id
PropertyPutGet(u, p, st) ==
    /\ HasCapacity
    /\ UNCHANGED <<properties, propsCreated, applications, constAssignThrows, payments, users, now>>
    /\ IF requireLandlord(u) # 0 THEN reject(requireLandlord(u))
       ELSE \/ reject(500)
            \/ IF properties[p] = NoProperty THEN reject(404)
               ELSE IF properties[p].landlordId # u THEN reject(403)
               ELSE IF st # "" /\ constAssignThrows THEN reject(500)
               ELSE start(Running("propPut", "update", u, p, st, "none", 0))

PropertyPutUpdate(r) ==
    /\ r \in InFlight /\ r.op = "propPut" /\ r.pc = "update"
    /\ UNCHANGED <<propsCreated, applications, constAssignThrows, payments, users, now>>
    /\ \/ respond(r, 500) /\ UNCHANGED properties
       \/ /\ properties' = IF r.status = "" THEN properties
                           ELSE updateProperty(properties, r.id, r.status)
          /\ respond(r, 200)

\* ---------------------------------------------------------------- DELETE /properties/:id
\* mutant: the delete goes on without comparing the landlordId
PropertyDeleteGet_NoOwnerCheck(u, p) ==
    /\ HasCapacity
    /\ UNCHANGED <<properties, propsCreated, applications, constAssignThrows, payments, users, now>>
    /\ IF requireLandlord(u) # 0 THEN reject(requireLandlord(u))
       ELSE \/ reject(500)
            \/ IF properties[p] = NoProperty THEN reject(404)
               ELSE start(Running("propDelete", "delete", u, p, "none", "none", 0))

PropertyDeleteGet(u, p) ==
    /\ HasCapacity
    /\ UNCHANGED <<properties, propsCreated, applications, constAssignThrows, payments, users, now>>
    /\ IF requireLandlord(u) # 0 THEN reject(requireLandlord(u))
       ELSE \/ reject(500)
            \/ IF properties[p] = NoProperty THEN reject(404)
               ELSE IF properties[p].landlordId # u THEN reject(403)
               ELSE start(Running("propDelete", "delete", u, p, "none", "none", 0))

PropertyDeleteDelete(r) ==
    /\ r \in InFlight /\ r.op = "propDelete" /\ r.pc = "delete"
    /\ UNCHANGED <<propsCreated, applications, constAssignThrows, payments, users, now>>
    /\ \/ respond(r, 500) /\ UNCHANGED properties
       \/ /\ properties' = [properties EXCEPT ![r.id] = NoProperty]
          /\ respond(r, 200)

\* ---------------------------------------------------------------- specification
Init ==
    /\ properties = [p \in PropIds |-> NoProperty]
    /\ propsCreated = 0
    /\ applications = [a \in AppIds |-> NoApplication]
    /\ inflight = EmptyBag
    /\ resp = NoResponse
    /\ constAssignThrows \in BOOLEAN
    /\ payments = [p \in PayIds |-> NoPayment]
    /\ users = {}
    /\ now = 1

\* Requests offered to the application and property routes, one per caller for
\* those the gate or the validation rejects.
SubmitRequests ==
    {q \in Callers \X PropIds \X BOOLEAN : (q[1] \notin Renters \/ ~q[3]) => q[2] = 1}

AppStatusRequests ==
    {q \in Callers \X AppIds \X AppStatusInputs \X BOOLEAN :
        (q[1] \notin Landlords \/ q[3] \notin ApplicationStatuses) => (q[2] = 1 /\ ~q[4])}

WithdrawRequests == {q \in Callers \X AppIds : q[1] \notin Renters => q[2] = 1}

PropertyPutRequests ==
    {q \in Callers \X PropIds \X PropStatusInputs :
        q[1] \notin Landlords => (q[2] = 1 /\ q[3] = "")}

PropertyDeleteRequests == {q \in Callers \X PropIds : q[1] \notin Landlords => q[2] = 1}

Next ==
    \/ \E q \in SubmitRequests : SubmitGetProperty(q[1], q[2], q[3])
    \/ \E r \in InFlight : SubmitScan(r)
    \/ \E r \in InFlight : SubmitPut(r)
    \/ \E q \in AppStatusRequests : AppStatusGet(q[1], q[2], q[3], q[4])
    \/ \E r \in InFlight : AppStatusUpdate(r)
    \/ \E r \in InFlight : AppStatusPropertyUpdate(r)
    \/ \E q \in WithdrawRequests : WithdrawGet(q[1], q[2])
    \/ \E r \in InFlight : WithdrawUpdate(r)
    \/ \E u \in Callers, v \in BOOLEAN : PropertyCreate(u, v)
    \/ \E q \in PropertyPutRequests : PropertyPutGet(q[1], q[2], q[3])
    \/ \E r \in InFlight : PropertyPutUpdate(r)
    \/ \E q \in PropertyDeleteRequests : PropertyDeleteGet(q[1], q[2])
    \/ \E r \in InFlight : PropertyDeleteDelete(r)

Spec == Init /\ [][Next]_vars

\* the renters' routes alone, on properties a landlord created
NextRenter ==
    \/ \E u \in Callers, v \in BOOLEAN : PropertyCreate(u, v)
    \/ \E q \in SubmitRequests : SubmitGetProperty(q[1], q[2], q[3])
    \/ \E r \in InFlight : SubmitScan(r)
    \/ \E r \in InFlight : SubmitPut(r)
    \/ \E q \in WithdrawRequests : WithdrawGet(q[1], q[2])
    \/ \E r \in InFlight : WithdrawUpdate(r)

SpecRenter == Init /\ [][NextRenter]_vars

\* ---------------------------------------------------------------- POST /payments
paysCreated == Cardinality({p \in PayIds : payments[p] # NoPayment})
appTables == <<properties, propsCreated, applications, constAssignThrows, users, now>>

AmountInputs == {0, 5, 7, -5}
DueDateInputs == {"", "2026-01-02", "2026-01-02T00:00:00.000Z", "2026-01-03", "soon"}

\* mutant: the agreement's landlord is not compared with the caller
PaymentCreateGet_AnyLandlord(u, g, valid, amount, dueDate) ==
    /\ HasCapacity
    /\ UNCHANGED <<appTables, payments>>
    /\ IF requireLandlord(u) # 0 THEN reject(requireLandlord(u))
       ELSE IF ~valid \/ amount = 0 \/ dueDate = "" THEN reject(400)
       ELSE \/ reject(500)
            \/ IF rentalAgreements[g] = NoAgreement THEN reject(404)
               ELSE start([Running("payCreate", "put", u, g, "none", "none", 0)
                             EXCEPT !.amount = amount, !.dueDate = dueDate,
                                    !.createdAt = toISOString(now)])

PaymentCreateGet(u, g, valid, amount, dueDate) ==
    /\ HasCapacity
    /\ UNCHANGED <<appTables, payments>>
    /\ IF requireLandlord(u) # 0 THEN reject(requireLandlord(u))
       ELSE IF ~valid \/ amount = 0 \/ dueDate = "" THEN reject(400)
       ELSE \/ reject(500)
            \/ IF rentalAgreements[g] = NoAgreement THEN reject(404)
               ELSE IF rentalAgreements[g].landlordId # u THEN reject(403)
               ELSE start([Running("payCreate", "put", u, g, "none", "none", 0)
                             EXCEPT !.amount = amount, !.dueDate = dueDate,
                                    !.createdAt = toISOString(now)])

PaymentCreatePut(r) ==
    /\ r \in InFlight /\ r.op = "payCreate" /\ r.pc = "put"
    /\ paysCreated < MaxPays
    /\ UNCHANGED appTables
    /\ \/ respond(r, 500) /\ UNCHANGED payments
       \/ /\ payments' = [payments EXCEPT ![paysCreated + 1] =
                [rentalAgreementId |-> r.id,
                 propertyId |-> rentalAgreements[r.id].propertyId,
                 renterId |-> rentalAgreements[r.id].renterId,
                 landlordId |-> r.user, status |-> "pending", paidDate |-> "",
                 amount |-> r.amount, dueDate |-> r.dueDate,
                 createdAt |-> r.createdAt]]
          /\ respond(r, 201)

\* ---------------------------------------------------------------- PATCH /payments/:id/status
PayStatusInputs == PaymentStatuses \cup {"", "bogus"}
PaidDateInputs == {"", "d1"}

\* the UpdateExpression construction: appending to the const throws a TypeError
\* in a build that keeps the const
expressionThrows(st, paidDate, notes) ==
    constAssignThrows /\ ((st = "paid" /\ paidDate # "") \/ notes)

\* mutant: the paidDate is stored with any status
updatePayment_AnyStatusPaidDate(tbl, id, st, paidDate) ==
    IF paidDate # ""
    THEN [tbl EXCEPT ![id].status = st, ![id].paidDate = paidDate]
    ELSE [tbl EXCEPT ![id].status = st]

\* SET status = :status [, paidDate = :paidDate]
updatePayment(tbl, id, st, paidDate) ==
    IF st = "paid" /\ paidDate # ""
    THEN [tbl EXCEPT ![id].status = st, ![id].paidDate = paidDate]
    ELSE [tbl EXCEPT ![id].status = st]

PaymentStatusGet(u, id, st, paidDate, notes) ==
    /\ HasCapacity
    /\ UNCHANGED <<appTables, payments>>
    /\ IF requireLandlord(u) # 0 THEN reject(requireLandlord(u))
       ELSE IF st = "" THEN reject(400)
       ELSE IF st \notin PaymentStatuses THEN reject(400)
       ELSE \/ reject(500)
            \/ IF payments[id] = NoPayment THEN reject(404)
               ELSE IF payments[id].landlordId # u THEN reject(403)
               ELSE IF expressionThrows(st, paidDate, notes) THEN reject(500)
               ELSE start([Running("payStatus", "update", u, id, st, "none", 0)
                             EXCEPT !.paidDate = paidDate])

PaymentStatusUpdate(r) ==
    /\ r \in InFlight /\ r.op = "payStatus" /\ r.pc = "update"
    /\ UNCHANGED appTables
    /\ \/ respond(r, 500) /\ UNCHANGED payments
       \/ /\ payments' = updatePayment(payments, r.id, r.status, r.paidDate)
          /\ respond(r, 200)

\* ---------------------------------------------------------------- PATCH /payments/bulk-update
bulkInFlight ==
    LET bulks == {r \in InFlight : r.op = "bulk"} IN
    IF bulks = {} THEN 0 ELSE BagCardinality([r \in bulks |-> inflight[r]])

BulkIdLists == UNION {[1..n -> PayIds] : n \in 0..MaxBulk}

Result(id, success, error) == [id |-> id, success |-> success, error |-> error]

\* mutant: the loop ends at the first failed id
push_StopAtFailure(r, entry) ==
    LET results == Append(r.results, entry) IN
    IF Len(results) = Len(r.ids) \/ ~entry.success
    THEN /\ inflight' = inflight (-) SetToBag({r})
         /\ resp' = Data(r.user, results)
    ELSE /\ inflight' = (inflight (-) SetToBag({r}))
                         (+) SetToBag({[r EXCEPT !.results = results, !.pc = "get"]})
         /\ resp' = NoResponse

\* results.push(...) and the loop's next iteration; res.json after the last id
push(r, entry) ==
    LET results == Append(r.results, entry) IN
    IF Len(results) = Len(r.ids)
    THEN /\ inflight' = inflight (-) SetToBag({r})
         /\ resp' = Data(r.user, results)
    ELSE /\ inflight' = (inflight (-) SetToBag({r}))
                         (+) SetToBag({[r EXCEPT !.results = results, !.pc = "get"]})
         /\ resp' = NoResponse

BulkUpdateStart(u, ids, st, paidDate, notes) ==
    /\ HasCapacity
    /\ bulkInFlight < MaxBulkInFlight
    /\ UNCHANGED <<appTables, payments>>
    /\ IF requireLandlord(u) # 0 THEN reject(requireLandlord(u))
       ELSE IF Len(ids) = 0 THEN reject(400)
       ELSE IF st = "" \/ st \notin PaymentStatuses THEN reject(400)
       ELSE start([Running("bulk", "get", u, 0, st, "none", 0)
                     EXCEPT !.paidDate = paidDate, !.ids = ids,
                            !.notes = (notes /\ constAssignThrows)])

BulkUpdateGet(r) ==
    LET paymentId == r.ids[Len(r.results) + 1] IN
    /\ r \in InFlight /\ r.op = "bulk" /\ r.pc = "get"
    /\ UNCHANGED <<appTables, payments>>
    /\ \/ push(r, Result(paymentId, FALSE, "Update failed"))
       \/ IF payments[paymentId] = NoPayment
          THEN push(r, Result(paymentId, FALSE, "Payment not found"))
          ELSE IF payments[paymentId].landlordId # r.user
          THEN push(r, Result(paymentId, FALSE, "Unauthorized"))
          ELSE IF expressionThrows(r.status, r.paidDate, r.notes)
          THEN push(r, Result(paymentId, FALSE, "Update failed"))
          ELSE continue(r, "update")

BulkUpdateUpdate(r) ==
    LET paymentId == r.ids[Len(r.results) + 1] IN
    /\ r \in InFlight /\ r.op = "bulk" /\ r.pc = "update"
    /\ UNCHANGED appTables
    /\ \/ push(r, Result(paymentId, FALSE, "Update failed")) /\ UNCHANGED payments
       \/ /\ payments' = updatePayment(payments, paymentId, r.status, r.paidDate)
          /\ push(r, Result(paymentId, TRUE, ""))

\* Requests offered to the payment routes.  A request the gate or the validation
\* rejects is rejected whatever its other fields hold, so one such request per
\* caller and per rejected status is offered.  The notes are not stored in the
\* model: a bulk request in flight keeps whether appending them throws.
PayStatusRequests ==
    {q \in Callers \X PayIds \X PayStatusInputs \X PaidDateInputs \X BOOLEAN :
        (q[1] \notin Landlords \/ q[3] \notin PaymentStatuses)
              => (q[2] = 1 /\ q[4] = "" /\ ~q[5])}

\* L1 is the bulk caller (the payments of L2 are the foreign ones); a paidDate
\* is offered with status paid, where the loop reads it
BulkRequests ==
    {q \in (Callers \ {"L2"}) \X BulkIdLists \X PayStatusInputs \X PaidDateInputs \X BOOLEAN :
        /\ (q[1] \notin Landlords \/ q[3] \notin PaymentStatuses \/ q[2] = <<>>)
              => (Len(q[2]) <= 1 /\ q[4] = "" /\ ~q[5]
                  /\ (q[2] = <<>> \/ q[2] = <<1>>))
        /\ q[3] # "paid" => q[4] = ""}

\* one well-formed amount and due date are offered where the payments' amounts
\* and dates are not read
PayCreateRequests ==
    {q \in Callers \X AgreementIds \X BOOLEAN \X {5} \X {"2026-01-02"} :
        (q[1] \notin Landlords \/ ~q[3]) => q[2] = 1}

NextPay ==
    \/ \E q \in PayCreateRequests : PaymentCreateGet(q[1], q[2], q[3], q[4], q[5])
    \/ \E r \in InFlight : PaymentCreatePut(r)
    \/ \E q \in PayStatusRequests : PaymentStatusGet(q[1], q[2], q[3], q[4], q[5])
    \/ \E r \in InFlight : PaymentStatusUpdate(r)

SpecPay == Init /\ [][NextPay]_vars

NextBulk ==
    \/ \E q \in PayCreateRequests : PaymentCreateGet(q[1], q[2], q[3], q[4], q[5])
    \/ \E r \in InFlight : PaymentCreatePut(r)
    \/ \E q \in BulkRequests : BulkUpdateStart(q[1], q[2], q[3], q[4], q[5])
    \/ \E r \in InFlight : BulkUpdateGet(r)
    \/ \E r \in InFlight : BulkUpdateUpdate(r)

SpecBulk == Init /\ [][NextBulk]_vars

\* ---------------------------------------------------------------- PUT /users/profile
Users == Landlords \cup Renters

\* a response sent by a handler that awaited nothing after the request arrived
answer(code, message) == resp' = Message(code, message) /\ UNCHANGED inflight
\* a response that ends the request r
finish(r, code, message) ==
    inflight' = inflight (-) SetToBag({r}) /\ resp' = Message(code, message)

\* the update creates the caller's item when there is none
ProfilePut(u, hasFields, ok) ==
    /\ UNCHANGED <<properties, propsCreated, applications, constAssignThrows, payments, now>>
    /\ IF hasFields /\ constAssignThrows
       THEN answer(500, "TypeError") /\ UNCHANGED users
       ELSE IF ~ok THEN answer(500, "Failed to update profile") /\ UNCHANGED users
       ELSE users' = users \cup {u} /\ answer(200, "Profile updated successfully")

\* ---------------------------------------------------------------- DELETE /users/account
\* scan with FilterExpression 'landlordId = :landlordId AND status = :status'
rentedProperties(u) ==
    {p \in DOMAIN properties : properties[p].landlordId = u /\ properties[p].status = "rented"}

\* scan with FilterExpression 'renterId = :renterId AND status = :status'
activeAgreements(u) ==
    {g \in AgreementIds : rentalAgreements[g].renterId = u
                           /\ rentalAgreements[g].status = "active"}

\* mutant: the eligibility scan looks for properties under maintenance
hasActiveRentals_Maintenance(u) ==
    IF userType(u) = "landlord"
    THEN {p \in DOMAIN properties : properties[p].landlordId = u
                                     /\ properties[p].status = "maintenance"} # {}
    ELSE activeAgreements(u) # {}

hasActiveRentals(u) ==
    IF userType(u) = "landlord" THEN rentedProperties(u) # {} ELSE activeAgreements(u) # {}

\* every error thrown inside the try block, the 400 of the eligibility check
\* included, is caught and replaced by createError('Failed to delete account', 500)
AccountDeleteScan(u, ok) ==
    /\ HasCapacity
    /\ UNCHANGED <<properties, propsCreated, applications, constAssignThrows, payments, users, now>>
    /\ IF ~ok THEN answer(500, "Failed to delete account")
       ELSE IF hasActiveRentals(u) THEN answer(500, "Failed to delete account")
       ELSE start(Running("accountDelete", "delete", u, 0, "none", "none", 0))

AccountDeleteDelete(r, ok) ==
    /\ r \in InFlight /\ r.op = "accountDelete" /\ r.pc = "delete"
    /\ UNCHANGED <<properties, propsCreated, applications, constAssignThrows, payments, now>>
    /\ IF ~ok THEN finish(r, 500, "Failed to delete account") /\ UNCHANGED users
       ELSE users' = users \ {r.user} /\ finish(r, 200, "Account deleted successfully")

\* the landlords set their properties rented and available again
AccountPropertyPutRequests == Landlords \X PropIds \X {"rented", "available", "maintenance"}

NextAccount ==
    \/ \E u \in Callers, v \in BOOLEAN : PropertyCreate(u, v)
    \/ \E q \in AccountPropertyPutRequests : PropertyPutGet(q[1], q[2], q[3])
    \/ \E r \in InFlight : PropertyPutUpdate(r)
    \/ \E u \in Users, f \in BOOLEAN, ok \in BOOLEAN : ProfilePut(u, f, ok)
    \/ \E u \in Users, ok \in BOOLEAN : AccountDeleteScan(u, ok)
    \/ \E r \in InFlight, ok \in BOOLEAN : AccountDeleteDelete(r, ok)

SpecAccount == Init /\ [][NextAccount]_vars

\* ---------------------------------------------------------------- scans and arrays
\* an item as a scan or a get returns it: the record with its key
Item(id, rec) == [id |-> id] @@ rec

\* the items of a table whose landlordId / renterId is u
ofLandlord(tbl, u) == {id \in DOMAIN tbl : tbl[id].landlordId = u}
ofRenter(tbl, u) == {id \in DOMAIN tbl : tbl[id].renterId = u}
ofCaller(tbl, u) == IF userType(u) = "renter" THEN ofRenter(tbl, u) ELSE ofLandlord(tbl, u)

\* the ids of S from the smallest to the largest, and back
ascending(S) ==
    LET f[T \in SUBSET S] ==
            IF T = {} THEN <<>>
            ELSE LET m == CHOOSE x \in T : \A y \in T : x <= y
                 IN  <<m>> \o f[T \ {m}]
    IN  f[S]
reverse(seq) == [i \in 1..Len(seq) |-> seq[Len(seq) + 1 - i]]

\* The store returns the items of a scan in no given order: every order of a
\* result of up to MaxPermuted items, and the two orders by key of a longer one.
MaxPermuted == 3
ScanOrders(S) ==
    IF Cardinality(S) <= MaxPermuted
    THEN {f \in [1..Cardinality(S) -> S] : \A i, j \in DOMAIN f : i # j => f[i] # f[j]}
    ELSE {ascending(S), reverse(ascending(S))}

Items(tbl, order) == [i \in 1..Len(order) |-> Item(order[i], tbl[order[i]])]

\* Array.prototype.filter, slice(0, n)
filter(items, keep(_)) ==
    LET f[i \in 0..Len(items)] ==
            IF i = 0 THEN <<>>
            ELSE IF keep(items[i]) THEN Append(f[i - 1], items[i]) ELSE f[i - 1]
    IN  f[Len(items)]
slice(items, n) == SubSeq(items, 1, IF n < Len(items) THEN n ELSE Len(items))

\* Array.prototype.sort with the comparator negative exactly when before(a, b):
\* each item is inserted before the first one it is before, so that items the
\* comparator does not order keep their order (the sort is stable)
sort(items, before(_, _)) ==
    LET insert(sorted, x) ==
            LET later == {i \in 1..Len(sorted) : before(x, sorted[i])}
                k == IF later = {} THEN Len(sorted) + 1
                     ELSE CHOOSE i \in later : \A j \in later : i <= j
            IN  SubSeq(sorted, 1, k - 1) \o <<x>> \o SubSeq(sorted, k, Len(sorted))
        f[i \in 0..Len(items)] == IF i = 0 THEN <<>> ELSE insert(f[i - 1], items[i])
    IN  f[Len(items)]

\* new Date(a.dueDate).getTime() - new Date(b.dueDate).getTime() is negative
dueDateAscending(a, b) ==
    /\ getTime(a.dueDate) # NaN /\ getTime(b.dueDate) # NaN
    /\ getTime(a.dueDate) < getTime(b.dueDate)
\* new Date(b.createdAt).getTime() - new Date(a.createdAt).getTime() is negative
createdAtDescending(a, b) ==
    /\ getTime(a.createdAt) # NaN /\ getTime(b.createdAt) # NaN
    /\ getTime(b.createdAt) < getTime(a.createdAt)

\* reduce((sum, p) => sum + p.amount, 0)
sumAmount(items) ==
    LET f[i \in 0..Len(items)] == IF i = 0 THEN 0 ELSE f[i - 1] + items[i].amount
    IN  f[Len(items)]

\* ---------------------------------------------------------------- GET /users/landlord/dashboard
RecentApplicationsCap == 5
UpcomingPaymentsCap == 10

\* new Date(p.dueDate) < new Date() and >= : false for an invalid date
isBefore(dueDate, t) == getTime(dueDate) # NaN /\ getTime(dueDate) < t
isNotBefore(dueDate, t) == getTime(dueDate) # NaN /\ getTime(dueDate) >= t

countStatus(items, st) == Len(filter(items, LAMBDA p : p.status = st))

totalEarnings(pays) == sumAmount(filter(pays, LAMBDA p : p.status = "paid"))

\* mutant: the sort is ascending
recentApplications_OldestFirst(apps) ==
    slice(sort(apps, LAMBDA a, b : createdAtDescending(b, a)), RecentApplicationsCap)

recentApplications(apps) == slice(sort(apps, createdAtDescending), RecentApplicationsCap)

\* mutant: a payment due today counts as overdue
overduePayments_DueToday(pays, t) ==
    sort(filter(pays, LAMBDA p : p.status = "pending" /\ isBefore(p.dueDate, t + 1)),
         dueDateAscending)

overduePayments(pays, t) ==
    sort(filter(pays, LAMBDA p : p.status = "pending" /\ isBefore(p.dueDate, t)),
         dueDateAscending)

upcomingPayments(pays, t, cap) ==
    slice(sort(filter(pays, LAMBDA p : p.status = "pending" /\ isNotBefore(p.dueDate, t)),
               dueDateAscending), cap)

LandlordDashboard(props, apps, pays, t) ==
    [totalProperties |-> Len(props),
     propertiesByStatus |-> [available |-> countStatus(props, "available"),
                             rented |-> countStatus(props, "rented"),
                             maintenance |-> countStatus(props, "maintenance")],
     totalEarnings |-> totalEarnings(pays),
     recentApplications |-> recentApplications(apps),
     overduePayments |-> overduePayments(pays, t),
     upcomingPayments |-> upcomingPayments(pays, t, UpcomingPaymentsCap)]

\* mutant: the dashboard request stores a profile item for its caller
LandlordDashboardProperties_TouchesProfile(u, ok) ==
    /\ HasCapacity
    /\ UNCHANGED <<properties, propsCreated, applications, constAssignThrows, payments, now>>
    /\ users' = users \cup {u}
    /\ IF userType(u) # "landlord" THEN answer(403, "Landlord access required")
       ELSE IF ~ok THEN answer(500, "Failed to fetch dashboard")
       ELSE \E order \in ScanOrders(ofLandlord(properties, u)) :
               start([Running("landlordDashboard", "applications", u, 0, "none", "none", 0)
                        EXCEPT !.propertiesResult = Items(properties, order)])

LandlordDashboardProperties(u, ok) ==
    /\ HasCapacity
    /\ UNCHANGED <<properties, propsCreated, applications, constAssignThrows, payments, users, now>>
    /\ IF userType(u) # "landlord" THEN answer(403, "Landlord access required")
       ELSE IF ~ok THEN answer(500, "Failed to fetch dashboard")
       ELSE \E order \in ScanOrders(ofLandlord(properties, u)) :
               start([Running("landlordDashboard", "applications", u, 0, "none", "none", 0)
                        EXCEPT !.propertiesResult = Items(properties, order)])

LandlordDashboardApplications(r, ok) ==
    /\ r \in InFlight /\ r.op = "landlordDashboard" /\ r.pc = "applications"
    /\ UNCHANGED <<properties, propsCreated, applications, constAssignThrows, payments, users, now>>
    /\ IF ~ok THEN finish(r, 500, "Failed to fetch dashboard")
       ELSE \E order \in ScanOrders(ofLandlord(applications, r.user)) :
               await(r, [r EXCEPT !.pc = "payments",
                                  !.applicationsResult = Items(applications, order)])

\* mutant: a failed payments scan is answered with the dashboard of what was read
LandlordDashboardPayments_Partial(r, ok) ==
    /\ r \in InFlight /\ r.op = "landlordDashboard" /\ r.pc = "payments"
    /\ UNCHANGED <<properties, propsCreated, applications, constAssignThrows, payments, users, now>>
    /\ inflight' = inflight (-) SetToBag({r})
    /\ IF ~ok
       THEN resp' = Data(r.user, <<LandlordDashboard(r.propertiesResult, r.applicationsResult,
                                             <<>>, now)>>)
       ELSE \E order \in ScanOrders(ofLandlord(payments, r.user)) :
               resp' = Data(r.user, <<LandlordDashboard(r.propertiesResult, r.applicationsResult,
                                                Items(payments, order), now)>>)

LandlordDashboardPayments(r, ok) ==
    /\ r \in InFlight /\ r.op = "landlordDashboard" /\ r.pc = "payments"
    /\ UNCHANGED <<properties, propsCreated, applications, constAssignThrows, payments, users, now>>
    /\ IF ~ok THEN finish(r, 500, "Failed to fetch dashboard")
       ELSE \E order \in ScanOrders(ofLandlord(payments, r.user)) :
               /\ inflight' = inflight (-) SetToBag({r})
               /\ resp' = Data(r.user, <<LandlordDashboard(r.propertiesResult, r.applicationsResult,
                                                   Items(payments, order), now)>>)

\* ---------------------------------------------------------------- GET /users/renter/dashboard
PaymentHistoryCap == 10
RenterUpcomingCap == 5

\* new Date(b.paidDate || b.createdAt).getTime() - new Date(a.paidDate || a.createdAt).getTime()
paidOrCreated(p) == IF p.paidDate # "" THEN p.paidDate ELSE p.createdAt
paidDescending(a, b) ==
    /\ getTime(paidOrCreated(a)) # NaN /\ getTime(paidOrCreated(b)) # NaN
    /\ getTime(paidOrCreated(b)) < getTime(paidOrCreated(a))

\* filter(p => p.status === 'paid').sort(...).slice(0, 10). A paidDate is stored
\* as the request gave it; when one of the sort keys is no date the comparator
\* returns NaN, it is not a consistent comparator, and the order the sort leaves
\* is implementation-defined: any order of the paid payments (of a list longer
\* than MaxPermuted, the order it came in and the reverse).
paymentHistory(pays) ==
    LET paid == filter(pays, LAMBDA p : p.status = "paid")
    IN  IF \A i \in 1..Len(paid) : getTime(paidOrCreated(paid[i])) # NaN
        THEN {slice(sort(paid, paidDescending), PaymentHistoryCap)}
        ELSE {slice([i \in 1..Len(paid) |-> paid[o[i]]], PaymentHistoryCap) :
                 o \in ScanOrders(1..Len(paid))}

RenterDashboard(apps, rentals, history, pays, t) ==
    [activeApplications |-> sort(filter(apps, LAMBDA a : a.status = "pending"),
                                 createdAtDescending),
     currentRentals |-> rentals,
     paymentHistory |-> history,
     upcomingPayments |-> upcomingPayments(pays, t, RenterUpcomingCap)]

RenterDashboardApplications(u, ok) ==
    /\ HasCapacity
    /\ UNCHANGED <<properties, propsCreated, applications, constAssignThrows, payments, users, now>>
    /\ IF userType(u) # "renter" THEN answer(403, "Renter access required")
       ELSE IF ~ok THEN answer(500, "Failed to fetch dashboard")
       ELSE \E order \in ScanOrders(ofRenter(applications, u)) :
               start([Running("renterDashboard", "rentalAgreements", u, 0, "none", "none", 0)
                        EXCEPT !.applicationsResult = Items(applications, order)])

RenterDashboardRentalAgreements(r, ok) ==
    /\ r \in InFlight /\ r.op = "renterDashboard" /\ r.pc = "rentalAgreements"
    /\ UNCHANGED <<properties, propsCreated, applications, constAssignThrows, payments, users, now>>
    /\ IF ~ok THEN finish(r, 500, "Failed to fetch dashboard")
       ELSE \E order \in ScanOrders(activeAgreements(r.user)) :
               await(r, [r EXCEPT !.pc = "payments",
                                  !.rentalAgreementsResult = Items(rentalAgreements, order)])

RenterDashboardPayments(r, ok) ==
    /\ r \in InFlight /\ r.op = "renterDashboard" /\ r.pc = "payments"
    /\ UNCHANGED <<properties, propsCreated, applications, constAssignThrows, payments, users, now>>
    /\ IF ~ok THEN finish(r, 500, "Failed to fetch dashboard")
       ELSE \E order \in ScanOrders(ofRenter(payments, r.user)) :
               /\ inflight' = inflight (-) SetToBag({r})
               /\ \E history \in paymentHistory(Items(payments, order)) :
                     resp' = Data(r.user, <<RenterDashboard(r.applicationsResult,
                                                            r.rentalAgreementsResult, history,
                                                            Items(payments, order), now)>>)

\* ---------------------------------------------------------------- GET /users/stats
overdueCount(pays, t) ==
    Len(filter(pays, LAMBDA p : p.status = "pending" /\ isBefore(p.dueDate, t)))

LandlordStats(props, apps, pays, t) ==
    [totalProperties |-> Len(props),
     availableProperties |-> countStatus(props, "available"),
     rentedProperties |-> countStatus(props, "rented"),
     totalApplications |-> Len(apps),
     pendingApplications |-> countStatus(apps, "pending"),
     approvedApplications |-> countStatus(apps, "approved"),
     totalPayments |-> Len(pays),
     paidPayments |-> countStatus(pays, "paid"),
     overduePayments |-> overdueCount(pays, t),
     totalEarnings |-> totalEarnings(pays)]

RenterStats(apps, rentals, pays, t) ==
    [totalApplications |-> Len(apps),
     pendingApplications |-> countStatus(apps, "pending"),
     approvedApplications |-> countStatus(apps, "approved"),
     rejectedApplications |-> countStatus(apps, "rejected"),
     currentRentals |-> countStatus(rentals, "active"),
     totalPayments |-> Len(pays),
     paidPayments |-> countStatus(pays, "paid"),
     overduePayments |-> overdueCount(pays, t),
     totalSpent |-> totalEarnings(pays)]

\* the landlord's first scan reads the properties, the renter's the applications
StatsFirst(u, ok) ==
    /\ HasCapacity
    /\ UNCHANGED <<properties, propsCreated, applications, constAssignThrows, payments, users, now>>
    /\ IF ~ok THEN answer(500, "Failed to fetch statistics")
       ELSE IF userType(u) = "landlord"
       THEN \E order \in ScanOrders(ofLandlord(properties, u)) :
               start([Running("stats", "second", u, 0, "none", "none", 0)
                        EXCEPT !.propertiesResult = Items(properties, order)])
       ELSE \E order \in ScanOrders(ofRenter(applications, u)) :
               start([Running("stats", "second", u, 0, "none", "none", 0)
                        EXCEPT !.applicationsResult = Items(applications, order)])

StatsSecond(r, ok) ==
    /\ r \in InFlight /\ r.op = "stats" /\ r.pc = "second"
    /\ UNCHANGED <<properties, propsCreated, applications, constAssignThrows, payments, users, now>>
    /\ IF ~ok THEN finish(r, 500, "Failed to fetch statistics")
       ELSE IF userType(r.user) = "landlord"
       THEN \E order \in ScanOrders(ofLandlord(applications, r.user)) :
               await(r, [r EXCEPT !.pc = "third",
                                  !.applicationsResult = Items(applications, order)])
       ELSE \E order \in ScanOrders(ofRenter(rentalAgreements, r.user)) :
               await(r, [r EXCEPT !.pc = "third",
                                  !.rentalAgreementsResult = Items(rentalAgreements, order)])

StatsThird(r, ok) ==
    /\ r \in InFlight /\ r.op = "stats" /\ r.pc = "third"
    /\ UNCHANGED <<properties, propsCreated, applications, constAssignThrows, payments, users, now>>
    /\ IF ~ok THEN finish(r, 500, "Failed to fetch statistics")
       ELSE \E order \in ScanOrders(ofCaller(payments, r.user)) :
               /\ inflight' = inflight (-) SetToBag({r})
               /\ resp' = Data(r.user, <<IF userType(r.user) = "landlord"
                                 THEN LandlordStats(r.propertiesResult, r.applicationsResult,
                                                    Items(payments, order), now)
                                 ELSE RenterStats(r.applicationsResult, r.rentalAgreementsResult,
                                                  Items(payments, order), now)>>)

\* ---------------------------------------------------------------- GET by id
\* an error thrown inside the handler's try block: the catch replaces it, its
\* status code included, by createError(message, 500)
caught(code, message) == answer(500, message)

PaymentGet(u, id, ok) ==
    /\ UNCHANGED <<properties, propsCreated, applications, constAssignThrows, payments, users, now>>
    /\ IF ~ok THEN answer(500, "Failed to fetch payment")
       ELSE IF payments[id] = NoPayment THEN caught(404, "Failed to fetch payment")
       ELSE IF userType(u) = "renter" /\ payments[id].renterId # u
       THEN caught(403, "Failed to fetch payment")
       ELSE IF userType(u) = "landlord" /\ payments[id].landlordId # u
       THEN caught(403, "Failed to fetch payment")
       ELSE resp' = Data(u, <<Item(id, payments[id])>>) /\ UNCHANGED inflight

ApplicationGet(u, a, ok) ==
    /\ UNCHANGED <<properties, propsCreated, applications, constAssignThrows, payments, users, now>>
    /\ IF ~ok THEN answer(500, "Failed to fetch application")
       ELSE IF applications[a] = NoApplication THEN caught(404, "Failed to fetch application")
       ELSE IF userType(u) = "renter" /\ applications[a].renterId # u
       THEN caught(403, "Failed to fetch application")
       ELSE IF userType(u) = "landlord" /\ applications[a].landlordId # u
       THEN caught(403, "Failed to fetch application")
       ELSE resp' = Data(u, <<Item(a, applications[a])>>) /\ UNCHANGED inflight

PropertyGet(p, ok) ==
    /\ UNCHANGED <<properties, propsCreated, applications, constAssignThrows, payments, users, now>>
    /\ IF ~ok THEN answer(500, "Failed to fetch property")
       ELSE IF properties[p] = NoProperty THEN caught(404, "Failed to fetch property")
       ELSE resp' = Data(NoUser, <<Item(p, properties[p])>>) /\ UNCHANGED inflight

ProfileGet(u, ok) ==
    /\ UNCHANGED <<properties, propsCreated, applications, constAssignThrows, payments, users, now>>
    /\ IF ~ok THEN answer(500, "Failed to fetch user profile")
       ELSE IF u \notin users THEN caught(404, "Failed to fetch user profile")
       ELSE resp' = Data(u, <<[userId |-> u]>>) /\ UNCHANGED inflight

\* ---------------------------------------------------------------- list routes
\* A scan with Limit and ExclusiveStartKey { id: offset }: page 1 has no start
\* key and, the tables being shorter than the limit, returns every match; a
\* later page starts after the place of the key "offset", somewhere in the
\* store's order.
Pages == {1, 2}
Page(S, page) ==
    IF page = 1 THEN ScanOrders(S)
    ELSE {SubSeq(order, k, Len(order)) : order \in ScanOrders(S), k \in 1..Cardinality(S) + 1}

ofAgreement(tbl, g) == {id \in DOMAIN tbl : tbl[id].rentalAgreementId = g}

AgreementPaymentsGet(u, g, page, ok) ==
    /\ HasCapacity
    /\ UNCHANGED <<properties, propsCreated, applications, constAssignThrows, payments, users, now>>
    /\ IF ~ok THEN reject(500)
       ELSE IF rentalAgreements[g] = NoAgreement THEN reject(404)
       ELSE IF userType(u) = "renter" /\ rentalAgreements[g].renterId # u THEN reject(403)
       ELSE IF userType(u) = "landlord" /\ rentalAgreements[g].landlordId # u THEN reject(403)
       ELSE start([Running("agreementPayments", "scan", u, g, "none", "none", 0)
                     EXCEPT !.ids = <<page>>])

AgreementPaymentsScan(r, ok) ==
    /\ r \in InFlight /\ r.op = "agreementPayments" /\ r.pc = "scan"
    /\ UNCHANGED <<properties, propsCreated, applications, constAssignThrows, payments, users, now>>
    /\ IF ~ok THEN finish(r, 500, "Failed to fetch payments")
       ELSE \E order \in Page(ofAgreement(payments, r.id), r.ids[1]) :
               /\ inflight' = inflight (-) SetToBag({r})
               /\ resp' = Data(r.user, sort(Items(payments, order), dueDateAscending))

\* mutant: the scan is not filtered by the caller
MyPayments_Unfiltered(u, page, ok) ==
    /\ UNCHANGED <<properties, propsCreated, applications, constAssignThrows, payments, users, now>>
    /\ UNCHANGED inflight
    /\ IF ~ok THEN resp' = Message(500, "Failed to fetch payments")
       ELSE \E order \in Page({id \in DOMAIN payments : payments[id] # NoPayment}, page) :
               resp' = Data(u, sort(Items(payments, order), dueDateAscending))

MyPayments(u, page, ok) ==
    /\ UNCHANGED <<properties, propsCreated, applications, constAssignThrows, payments, users, now>>
    /\ UNCHANGED inflight
    /\ IF ~ok THEN resp' = Message(500, "Failed to fetch payments")
       ELSE \E order \in Page(ofCaller(payments, u), page) :
               resp' = Data(u, sort(Items(payments, order), dueDateAscending))

MyApplications(u, page, ok) ==
    /\ UNCHANGED <<properties, propsCreated, applications, constAssignThrows, payments, users, now>>
    /\ UNCHANGED inflight
    /\ IF ~ok THEN resp' = Message(500, "Failed to fetch applications")
       ELSE \E order \in Page(ofCaller(applications, u), page) :
               resp' = Data(u, sort(Items(applications, order), createdAtDescending))

\* ---------------------------------------------------------------- the read routes together
\* records of both landlords and both renters are created, one request at a
\* time, and read by every user
NextRead ==
    \/ Idle /\ \E u \in Landlords : PropertyCreate(u, TRUE)
    \/ Idle /\ \E u \in Renters, p \in PropIds : SubmitGetProperty(u, p, TRUE)
    \/ \E r \in InFlight : SubmitScan(r)
    \/ \E r \in InFlight : SubmitPut(r)
    \/ Idle /\ \E u \in Landlords, g \in {1, 2} : PaymentCreateGet(u, g, TRUE, 5, "2026-01-02")
    \/ \E r \in InFlight : PaymentCreatePut(r)
    \/ Idle /\ \E u \in Users, ok \in BOOLEAN : ProfilePut(u, FALSE, ok)
    \/ Idle /\ \E u \in Users, id \in PayIds, ok \in BOOLEAN : PaymentGet(u, id, ok)
    \/ Idle /\ \E u \in Users, a \in AppIds, ok \in BOOLEAN : ApplicationGet(u, a, ok)
    \/ Idle /\ \E p \in PropIds, ok \in BOOLEAN : PropertyGet(p, ok)
    \/ Idle /\ \E u \in Users, ok \in BOOLEAN : ProfileGet(u, ok)
    \/ Idle /\ \E u \in Users, g \in AgreementIds, pg \in Pages, ok \in BOOLEAN :
                  AgreementPaymentsGet(u, g, pg, ok)
    \/ \E r \in InFlight, ok \in BOOLEAN : AgreementPaymentsScan(r, ok)
    \/ Idle /\ \E u \in Users, pg \in Pages, ok \in BOOLEAN : MyPayments(u, pg, ok)
    \/ Idle /\ \E u \in Users, pg \in Pages, ok \in BOOLEAN : MyApplications(u, pg, ok)
    \/ Idle /\ \E u \in Users, ok \in BOOLEAN : LandlordDashboardProperties(u, ok)
    \/ \E r \in InFlight, ok \in BOOLEAN : LandlordDashboardApplications(r, ok)
    \/ \E r \in InFlight, ok \in BOOLEAN : LandlordDashboardPayments(r, ok)
    \/ Idle /\ \E u \in Users, ok \in BOOLEAN : RenterDashboardApplications(u, ok)
    \/ \E r \in InFlight, ok \in BOOLEAN : RenterDashboardRentalAgreements(r, ok)
    \/ \E r \in InFlight, ok \in BOOLEAN : RenterDashboardPayments(r, ok)
    \/ Idle /\ \E u \in Users, ok \in BOOLEAN : StatsFirst(u, ok)
    \/ \E r \in InFlight, ok \in BOOLEAN : StatsSecond(r, ok)
    \/ \E r \in InFlight, ok \in BOOLEAN : StatsThird(r, ok)

SpecRead == Init /\ [][NextRead]_vars

\* ---------------------------------------------------------------- the dashboards among writes
\* a day passes
Tick ==
    /\ now < MaxClock
    /\ now' = now + 1
    /\ resp' = NoResponse
    /\ UNCHANGED <<properties, propsCreated, applications, inflight, constAssignThrows,
                   payments, users>>

\* payments of several amounts are created, paid and cancelled while the
\* dashboards and the stats are read
DashPayCreateRequests == Landlords \X {1, 2} \X {5, 7, -5}
DashPayStatusRequests == Landlords \X PayIds \X {"paid", "cancelled"}

\* one write and one read are served at a time, a read between the steps of a write
Reads == {"landlordDashboard", "renterDashboard", "stats"}
NoRead == \A r \in InFlight : r.op \notin Reads
NoWrite == \A r \in InFlight : r.op \in Reads

NextDash ==
    \/ NoWrite /\ \E q \in DashPayCreateRequests :
                     PaymentCreateGet(q[1], q[2], TRUE, q[3], "2026-01-02")
    \/ \E r \in InFlight : PaymentCreatePut(r)
    \/ NoWrite /\ \E q \in DashPayStatusRequests : PaymentStatusGet(q[1], q[2], q[3], "", FALSE)
    \/ \E r \in InFlight : PaymentStatusUpdate(r)
    \/ NoRead /\ \E u \in Users, ok \in BOOLEAN : LandlordDashboardProperties(u, ok)
    \/ \E r \in InFlight, ok \in BOOLEAN : LandlordDashboardApplications(r, ok)
    \/ \E r \in InFlight, ok \in BOOLEAN : LandlordDashboardPayments(r, ok)
    \/ NoRead /\ \E u \in Users, ok \in BOOLEAN : RenterDashboardApplications(u, ok)
    \/ \E r \in InFlight, ok \in BOOLEAN : RenterDashboardRentalAgreements(r, ok)
    \/ \E r \in InFlight, ok \in BOOLEAN : RenterDashboardPayments(r, ok)
    \/ NoRead /\ \E u \in Users, ok \in BOOLEAN : StatsFirst(u, ok)
    \/ \E r \in InFlight, ok \in BOOLEAN : StatsSecond(r, ok)
    \/ \E r \in InFlight, ok \in BOOLEAN : StatsThird(r, ok)

SpecDash == Init /\ [][NextDash]_vars

\* ---------------------------------------------------------------- the landlord dashboard over longer tables
\* Tables as earlier requests left them, longer than the caps of the dashboard:
\* the first MaxVaried records vary, the rest are alike.
MaxVaried == 3

\* the i-th application is the i-th renter's: one renter applies to a property once
SeedApplication(i, l, day) ==
    [propertyId |-> IF l = "L1" THEN 1 ELSE 2, renterId |-> "R" \o ToString(i),
     landlordId |-> l, status |-> "pending", createdAt |-> toISOString(day)]
SeedApplicationCounts == 0..MaxVaried \cup {RecentApplicationsCap, RecentApplicationsCap + 2}
SeededApplications ==
    {[i \in 1..n |-> IF i = 1 THEN SeedApplication(i, l, d[i])
                     ELSE IF i <= MaxVaried THEN SeedApplication(i, "L1", d[i])
                     ELSE SeedApplication(i, "L1", 2)] :
        n \in SeedApplicationCounts, l \in Landlords, d \in [1..MaxVaried -> 1..MaxClock]}

SeedDueDates == {"2026-01-01", "2026-01-02", "2026-01-02T00:00:00.000Z", "soon"}
SeedPayment(l, st, dueDate) ==
    [rentalAgreementId |-> IF l = "L1" THEN 1 ELSE 2,
     propertyId |-> IF l = "L1" THEN 1 ELSE 2,
     renterId |-> IF l = "L1" THEN "R1" ELSE "R2", landlordId |-> l,
     status |-> st, paidDate |-> "", amount |-> 5, dueDate |-> dueDate,
     createdAt |-> toISOString(1)]
SeedPaymentCounts == 0..MaxVaried \cup {UpcomingPaymentsCap + 2}
SeededPayments ==
    {[i \in 1..n |-> IF i = 1 THEN SeedPayment(l, st[i], d[i])
                     ELSE IF i <= MaxVaried THEN SeedPayment("L1", st[i], d[i])
                     ELSE SeedPayment("L1", "pending", "2026-01-03")] :
        n \in SeedPaymentCounts, l \in Landlords,
        st \in [1..MaxVaried -> {"pending", "paid"}], d \in [1..MaxVaried -> SeedDueDates]}

\* the applications were created up to the last day, the payments on the first
InitLong ==
    /\ properties = <<[landlordId |-> "L1", status |-> "available"],
                      [landlordId |-> "L2", status |-> "available"]>>
    /\ propsCreated = 2
    /\ inflight = EmptyBag
    /\ resp = NoResponse
    /\ constAssignThrows \in BOOLEAN
    /\ users = {}
    /\ \/ applications \in SeededApplications /\ payments = <<>> /\ now = MaxClock
       \/ applications = <<>> /\ payments \in SeededPayments /\ now = 1

NextLong ==
    \/ Tick
    \/ Idle /\ \E u \in Users, ok \in BOOLEAN : LandlordDashboardProperties(u, ok)
    \/ \E r \in InFlight, ok \in BOOLEAN : LandlordDashboardApplications(r, ok)
    \/ \E r \in InFlight, ok \in BOOLEAN : LandlordDashboardPayments(r, ok)

SpecLong == InitLong /\ [][NextLong]_vars

\* ---------------------------------------------------------------- the renter dashboard over longer tables
\* Payments of agreement 1 (renter R1), the first of them possibly of agreement 2
\* (renter R2): the first MaxVaried vary, the rest are alike, all paid or all
\* pending. A stored paidDate is whatever a status update supplied.
SeedPaidDates == {"", "2026-01-03", "d1"}
SeedRenterPayment(g, st, paidDate, dueDate, day) ==
    [rentalAgreementId |-> g, propertyId |-> g,
     renterId |-> IF g = 1 THEN "R1" ELSE "R2",
     landlordId |-> IF g = 1 THEN "L1" ELSE "L2",
     status |-> st, paidDate |-> paidDate, amount |-> 5, dueDate |-> dueDate,
     createdAt |-> toISOString(day)]
SeedVariants ==
    {SeedRenterPayment(1, "paid", pd, "2026-01-02", day) : pd \in SeedPaidDates, day \in {1, 2}}
      \cup {SeedRenterPayment(1, "pending", "", d, 1) : d \in {"2026-01-02", "2026-01-03", "soon"}}
SeedTails == {SeedRenterPayment(1, "paid", "", "2026-01-02", 1),
              SeedRenterPayment(1, "pending", "", "2026-01-03", 1)}
SeedRenterCounts == 0..MaxVaried \cup {PaymentHistoryCap + 2}
SeededRenterPayments ==
    {[i \in 1..n |-> IF i = 1 THEN [v[i] EXCEPT !.rentalAgreementId = g, !.propertyId = g,
                                                 !.renterId = IF g = 1 THEN "R1" ELSE "R2",
                                                 !.landlordId = IF g = 1 THEN "L1" ELSE "L2"]
                     ELSE IF i <= MaxVaried THEN v[i] ELSE tail] :
        n \in SeedRenterCounts, g \in {1, 2}, v \in [1..MaxVaried -> SeedVariants],
        tail \in SeedTails}

\* a paidDate is stored only by a build in which the update expression can be extended
InitRenterLong ==
    /\ properties = <<[landlordId |-> "L1", status |-> "rented"],
                      [landlordId |-> "L2", status |-> "available"]>>
    /\ propsCreated = 2
    /\ applications = <<>>
    /\ inflight = EmptyBag
    /\ resp = NoResponse
    /\ users = {}
    /\ now = 2
    /\ payments \in SeededRenterPayments
    /\ constAssignThrows \in BOOLEAN
    /\ constAssignThrows => \A id \in DOMAIN payments : payments[id].paidDate = ""

NextRenterLong ==
    \/ Tick
    \/ Idle /\ \E u \in Users, ok \in BOOLEAN : RenterDashboardApplications(u, ok)
    \/ \E r \in InFlight, ok \in BOOLEAN : RenterDashboardRentalAgreements(r, ok)
    \/ \E r \in InFlight, ok \in BOOLEAN : RenterDashboardPayments(r, ok)

SpecRenterLong == InitRenterLong /\ [][NextRenterLong]_vars

\* ---------------------------------------------------------------- the landlord dashboard among property updates
\* PUT /properties/:id stores the status the request gives
PropsPutRequests == Landlords \X PropIds \X {"rented", "maintenance", "inactive"}

NextProps ==
    \/ NoWrite /\ \E u \in Landlords : PropertyCreate(u, TRUE)
    \/ NoWrite /\ \E q \in PropsPutRequests : PropertyPutGet(q[1], q[2], q[3])
    \/ \E r \in InFlight : PropertyPutUpdate(r)
    \/ NoRead /\ \E u \in Users, ok \in BOOLEAN : LandlordDashboardProperties(u, ok)
    \/ \E r \in InFlight, ok \in BOOLEAN : LandlordDashboardApplications(r, ok)
    \/ \E r \in InFlight, ok \in BOOLEAN : LandlordDashboardPayments(r, ok)

SpecProps == Init /\ [][NextProps]_vars

\* ---------------------------------------------------------------- the role gates
\* every gated route is requested by a landlord, a renter and a caller without identity
NextGate ==
    \/ Idle /\ \E u \in Callers : PropertyCreate(u, TRUE)
    \/ Idle /\ \E u \in Callers, p \in PropIds : SubmitGetProperty(u, p, TRUE)
    \/ \E r \in InFlight : SubmitScan(r)
    \/ \E r \in InFlight : SubmitPut(r)
    \/ Idle /\ \E u \in Callers : PaymentCreateGet(u, 1, TRUE, 5, "2026-01-02")
    \/ \E r \in InFlight : PaymentCreatePut(r)
    \/ Idle /\ \E u \in Callers, a \in AppIds : AppStatusGet(u, a, "approved", FALSE)
    \/ \E r \in InFlight : AppStatusUpdate(r)
    \/ \E r \in InFlight : AppStatusPropertyUpdate(r)
    \/ Idle /\ \E u \in Callers, a \in AppIds : WithdrawGet(u, a)
    \/ \E r \in InFlight : WithdrawUpdate(r)
    \/ Idle /\ \E u \in Callers, p \in PropIds : PropertyPutGet(u, p, "maintenance")
    \/ \E r \in InFlight : PropertyPutUpdate(r)
    \/ Idle /\ \E u \in Callers, p \in PropIds : PropertyDeleteGet(u, p)
    \/ \E r \in InFlight : PropertyDeleteDelete(r)
    \/ Idle /\ \E u \in Callers, id \in PayIds : PaymentStatusGet(u, id, "paid", "", FALSE)
    \/ \E r \in InFlight : PaymentStatusUpdate(r)
    \/ Idle /\ \E u \in Callers : BulkUpdateStart(u, <<1>>, "cancelled", "", FALSE)
    \/ \E r \in InFlight : BulkUpdateGet(r)
    \/ \E r \in InFlight : BulkUpdateUpdate(r)

SpecGate == Init /\ [][NextGate]_vars

\* ---------------------------------------------------------------- POST /auth/logout
AccessTokens == {"", "t1", "t2"}

\* mutant: a failed sign-out is reported
Logout_FailureSurfaces(accessToken, ok) ==
    /\ UNCHANGED <<properties, propsCreated, applications, inflight, constAssignThrows,
                   payments, users, now>>
    /\ IF accessToken = "" THEN resp' = Message(400, "Access token is required")
       ELSE IF ~ok THEN resp' = Message(500, "Logout failed")
       ELSE resp' = Message(200, "Logged out successfully")

\* ok: cognito.globalSignOut resolved; when it rejects, the catch sends the same body
Logout(accessToken, ok) ==
    /\ UNCHANGED <<properties, propsCreated, applications, inflight, constAssignThrows,
                   payments, users, now>>
    /\ IF accessToken = "" THEN answer(400, "Access token is required")
       ELSE IF ok THEN resp' = Message(200, "Logged out successfully")
       ELSE resp' = Message(200, "Logged out successfully")

\* logout among the profile and account requests
NextSession ==
    \/ \E t \in AccessTokens, ok \in BOOLEAN : Logout(t, ok)
    \/ \E u \in Landlords : PropertyCreate(u, TRUE)
    \/ \E q \in AccountPropertyPutRequests : PropertyPutGet(q[1], q[2], q[3])
    \/ \E r \in InFlight : PropertyPutUpdate(r)
    \/ \E u \in Users, f \in BOOLEAN, ok \in BOOLEAN : ProfilePut(u, f, ok)
    \/ \E u \in Users, ok \in BOOLEAN : AccountDeleteScan(u, ok)
    \/ \E r \in InFlight, ok \in BOOLEAN : AccountDeleteDelete(r, ok)

SpecSession == Init /\ [][NextSession]_vars

\* ---------------------------------------------------------------- the mutation routes together
\* the five routes that change a record after an ownership check, over records
\* of both landlords and both renters
OwnerAppStatusRequests == Users \X AppIds \X {"approved", "bogus"}
OwnerPayStatusRequests == Users \X PayIds \X {"cancelled", "bogus"}

NextOwner ==
    \/ Idle /\ \E u \in Landlords : PropertyCreate(u, TRUE)
    \/ Idle /\ \E u \in Renters, p \in PropIds : SubmitGetProperty(u, p, TRUE)
    \/ \E r \in InFlight : SubmitScan(r)
    \/ \E r \in InFlight : SubmitPut(r)
    \/ Idle /\ \E u \in Landlords, g \in {1, 2} : PaymentCreateGet(u, g, TRUE, 5, "2026-01-02")
    \/ \E r \in InFlight : PaymentCreatePut(r)
    \/ Idle /\ \E q \in OwnerAppStatusRequests : AppStatusGet(q[1], q[2], q[3], FALSE)
    \/ \E r \in InFlight : AppStatusUpdate(r)
    \/ \E r \in InFlight : AppStatusPropertyUpdate(r)
    \/ Idle /\ \E u \in Users, a \in AppIds : WithdrawGet(u, a)
    \/ \E r \in InFlight : WithdrawUpdate(r)
    \/ Idle /\ \E u \in Users, p \in PropIds : PropertyPutGet(u, p, "maintenance")
    \/ \E r \in InFlight : PropertyPutUpdate(r)
    \/ Idle /\ \E u \in Users, p \in PropIds : PropertyDeleteGet(u, p)
    \/ \E r \in InFlight : PropertyDeleteDelete(r)
    \/ Idle /\ \E q \in OwnerPayStatusRequests : PaymentStatusGet(q[1], q[2], q[3], "", FALSE)
    \/ \E r \in InFlight : PaymentStatusUpdate(r)

SpecOwner == Init /\ [][NextOwner]_vars

TypeOK ==
    /\ propsCreated \in 0..MaxProps
    /\ BagCardinality(inflight) <= MaxInFlight
\* ================================================================ properties
\* the request r took the step
Stepped(r) == CopiesIn(r, inflight') < CopiesIn(r, inflight)

\* C1: when the owning landlord's approval gets its success response (both
\* store writes succeeded), the linked property's stored status is rented,
\* whatever it was before.
C1_ApprovalSetsRented ==
    [][\A r \in InFlight :
          (r.op = "appStatus" /\ r.status = "approved" /\ Stepped(r) /\ resp'.code = 200)
              => properties'[applications[r.id].propertyId].status = "rented"]_vars

C1_Witness ==
    /\ resp.code = 200
    /\ \E a \in AppIds :
          /\ applications[a].status = "approved"
          /\ properties[applications[a].propertyId].status = "rented"

\* C2: no step of a landlord's rejection or of a renter's withdrawal changes
\* any Property record, whether the request ends in success or in failure.
C2_RejectWithdrawKeepProperties ==
    [][\A r \in InFlight :
          ((r.op = "withdraw" \/ (r.op = "appStatus" /\ r.status = "rejected")) /\ Stepped(r))
              => properties' = properties]_vars

C2_Witness ==
    /\ \E a \in AppIds : applications[a].status = "rejected"
    /\ \E a \in AppIds : applications[a].status = "withdrawn"
    /\ \E p \in PropIds : properties[p].status = "available"
C4_TerminalPaymentStatus ==
    [][\A p \in PayIds :
          payments[p].status \in {"paid", "overdue", "cancelled"}
              => payments'[p].status = payments[p].status]_vars

\* C5 as claimed: an Application's status becomes approved or rejected only in
\* a step of a status request by the landlord who owns it, and an approved or
\* rejected Application keeps its status in every later step.
C5_DecisionByOwnerAndFinal ==
    [][\A a \in AppIds :
          /\ (applications'[a].status \in {"approved", "rejected"}
                /\ applications'[a].status # applications[a].status)
                => \E r \in InFlight :
                      /\ Stepped(r) /\ r.op = "appStatus" /\ r.id = a
                      /\ r.user = applications[a].landlordId
          /\ applications[a].status \in {"approved", "rejected"}
                => applications'[a].status = applications[a].status]_vars

\* C6 as claimed: an Application's status becomes withdrawn only in a step of a
\* withdraw request by the renter who owns it, and only from pending.
C6_WithdrawnOnlyByRenterFromPending ==
    [][\A a \in AppIds :
          (applications'[a].status = "withdrawn" /\ applications[a].status # "withdrawn")
              => /\ applications[a].status = "pending"
                 /\ \E r \in InFlight :
                       /\ Stepped(r) /\ r.op = "withdraw" /\ r.id = a
                       /\ r.user = applications[a].renterId]_vars

\* the renter has an application for the property / one that is still active
HasApplication(u, p) ==
    \E a \in AppIds : applications[a].renterId = u /\ applications[a].propertyId = p
HasActiveApplication(u, p) ==
    \E a \in AppIds : /\ applications[a].renterId = u /\ applications[a].propertyId = p
                      /\ applications[a].status \notin {"withdrawn", "rejected"}
OnlyWithdrawnApplications(u, p) ==
    /\ HasApplication(u, p)
    /\ \A a \in AppIds : (applications[a].renterId = u /\ applications[a].propertyId = p)
                            => applications[a].status = "withdrawn"

C8_ResubmitAfterWithdraw ==
    [][\A r \in InFlight :
          (r.op = "submit" /\ r.pc = "scan" /\ Stepped(r)
             /\ OnlyWithdrawnApplications(r.user, r.id)
             /\ properties[r.id].status = "available")
              => resp'.code \in {0, 500}]_vars

\* C9 as claimed: at most one Application record per (propertyId, renterId).
C9_OneApplicationPerPair ==
    \A a, b \in AppIds :
        (a # b /\ applications[a] # NoApplication /\ applications[b] # NoApplication)
            => ~(applications[a].propertyId = applications[b].propertyId
                 /\ applications[a].renterId = applications[b].renterId)
\* the results list of the bulk request r after its step
resultsAfter(r) ==
    IF resp'.code # 0 THEN resp'.data
    ELSE (CHOOSE q \in BagToSet(inflight') :
             q.op = "bulk" /\ CopiesIn(q, inflight') > CopiesIn(q, inflight)).results

\* C10: a bulk update answers 200 with one result per submitted id, in
\* submission order.  Each step of its loop adds at most the entry of the id
\* being processed; an id that is missing or not owned by the caller is marked
\* failed and no Payment record changes; an entry marked successful means that
\* id's record now holds the requested status, whatever the entries before it
\* say, and no other record changes.
C10_BulkReportsEachId ==
    [][\A r \in InFlight :
          (r.op = "bulk" /\ Stepped(r)) =>
              LET k == Len(r.results) + 1
                  id == r.ids[k]
                  after == resultsAfter(r)
              IN  /\ resp'.code \in {0, 200}
                  /\ resp'.code = 200 =>
                        /\ Len(after) = Len(r.ids)
                        /\ \A i \in 1..Len(after) : after[i].id = r.ids[i]
                  /\ Len(after) \in {k - 1, k}
                  /\ SubSeq(after, 1, k - 1) = r.results
                  /\ Len(after) = k - 1 => payments' = payments
                  /\ Len(after) = k =>
                        /\ after[k].id = id
                        /\ (payments[id] = NoPayment \/ payments[id].landlordId # r.user)
                              => (~after[k].success /\ payments' = payments)
                        /\ after[k].success => payments'[id].status = r.status
                        /\ ~after[k].success => payments' = payments
                        /\ \A j \in PayIds : j # id => payments'[j] = payments[j]]_vars

C10_Witness ==
    /\ resp.code = 200
    /\ Len(resp.data) = 2
    /\ ~resp.data[1].success /\ resp.data[1].error = "Unauthorized"
    /\ resp.data[2].success
    /\ payments[resp.data[1].id].status = "pending"
    /\ payments[resp.data[2].id].status = "cancelled"

\* C11 as claimed: when the eligibility scan of a landlord's account deletion
\* succeeds and finds a rented property of the caller, the request is answered
\* with a 400-class status code.
C11_RentedLandlordGets4xx ==
    [][\A u \in Landlords :
          (rentedProperties(u) # {} /\ AccountDeleteScan(u, TRUE))
              => resp'.code \in 400..499]_vars

\* C12: an account deletion whose eligibility scan finds a rented property of
\* the caller (landlord) or an active rental agreement of the caller (renter)
\* ends in an error and leaves the r.userS table unchanged; one whose scan finds
\* none goes on to the delete, which removes exactly the caller's record and
\* answers 200 (500 and no change when the store fails).  No other step removes
\* a User record.
C12_DeleteIffScanFindsNone ==
    [][/\ \A u \in Users :
             /\ ((rentedProperties(u) # {} \/ activeAgreements(u) # {})
                    /\ \E ok \in BOOLEAN : AccountDeleteScan(u, ok))
                   => (resp'.code = 500 /\ users' = users /\ inflight' = inflight)
             /\ (rentedProperties(u) = {} /\ activeAgreements(u) = {}
                    /\ AccountDeleteScan(u, TRUE))
                   => (resp'.code = 0 /\ users' = users /\
                       \E r \in BagToSet(inflight') :
                           r.op = "accountDelete" /\ r.user = u /\ r.pc = "delete")
       /\ \A r \in InFlight :
             /\ AccountDeleteDelete(r, TRUE)
                   => (users' = users \ {r.user} /\ resp'.code = 200)
             /\ AccountDeleteDelete(r, FALSE)
                   => (users' = users /\ resp'.code = 500)
       /\ (\E u \in users : u \notin users')
             => \E r \in InFlight :
                   /\ r.op = "accountDelete" /\ Stepped(r)
                   /\ users' = users \ {r.user}]_vars

\* a landlord's record is removed while a property of that landlord, rented
\* before, is available
C12_Witness ==
    /\ resp.code = 200 /\ resp.message = "Account deleted successfully"
    /\ \E p \in PropIds :
          /\ properties[p].status = "available"
          /\ properties[p].landlordId \in Landlords \ users
\* the record exists and the caller is not the one the route lets change it
ForeignApplication(u, a) ==
    applications[a] # NoApplication /\ applications[a].landlordId # u
OthersApplication(u, a) ==
    applications[a] # NoApplication /\ applications[a].renterId # u
ForeignProperty(u, p) == properties[p] # NoProperty /\ properties[p].landlordId # u
ForeignPayment(u, id) == payments[id] # NoPayment /\ payments[id].landlordId # u

\* the step wrote no record and left no request running
NothingDone ==
    /\ inflight' = inflight
    /\ UNCHANGED <<properties, applications, payments, users>>

\* C13 as claimed: the first step of a mutation request on an existing record
\* the caller does not own answers 403 (500 when the read fails), whatever the
\* request body holds, and writes nothing.
C13_NonOwnerGets403 ==
    [][/\ \A q \in OwnerAppStatusRequests :
             (ForeignApplication(q[1], q[2]) /\ AppStatusGet(q[1], q[2], q[3], FALSE))
                => (resp'.code \in {403, 500} /\ NothingDone)
       /\ \A q \in OwnerPayStatusRequests :
             (ForeignPayment(q[1], q[2]) /\ PaymentStatusGet(q[1], q[2], q[3], "", FALSE))
                => (resp'.code \in {403, 500} /\ NothingDone)
       /\ \A u \in Users :
            /\ \A a \in AppIds :
                  (OthersApplication(u, a) /\ WithdrawGet(u, a))
                     => (resp'.code \in {403, 500} /\ NothingDone)
            /\ \A p \in PropIds :
                  /\ (ForeignProperty(u, p) /\ PropertyPutGet(u, p, "maintenance"))
                        => (resp'.code \in {403, 500} /\ NothingDone)
                  /\ (ForeignProperty(u, p) /\ PropertyDeleteGet(u, p))
                        => (resp'.code \in {403, 500} /\ NothingDone)]_vars

\* the answers a request may get when the record is not the caller's, given the
\* role gate's verdict: 403 from the role gate, otherwise 400 for a missing or unknown
\* status, 403 for a well-formed request, 500 when the read fails
NonOwnerAnswers(gate, wellFormed) ==
    IF gate # 0 THEN {403} ELSE IF wellFormed THEN {403, 500} ELSE {400}

\* C13 as amended: such a request writes nothing and is answered 403 when the
\* caller has the wrong role, and otherwise 400 when its status field is
\* missing or not a status, 403 when it is well-formed, and 500 when the read
\* of the record fails.
C13_NonOwnerRejected ==
    [][/\ \A q \in OwnerAppStatusRequests :
             (ForeignApplication(q[1], q[2]) /\ AppStatusGet(q[1], q[2], q[3], FALSE))
                => /\ NothingDone
                   /\ resp'.code \in NonOwnerAnswers(requireLandlord(q[1]),
                                                      q[3] \in ApplicationStatuses)
       /\ \A q \in OwnerPayStatusRequests :
             (ForeignPayment(q[1], q[2]) /\ PaymentStatusGet(q[1], q[2], q[3], "", FALSE))
                => /\ NothingDone
                   /\ resp'.code \in NonOwnerAnswers(requireLandlord(q[1]),
                                                      q[3] \in PaymentStatuses)
       /\ \A u \in Users :
            /\ \A a \in AppIds :
                  (OthersApplication(u, a) /\ WithdrawGet(u, a))
                     => /\ NothingDone
                        /\ resp'.code \in NonOwnerAnswers(requireRenter(u), TRUE)
            /\ \A p \in PropIds :
                  /\ (ForeignProperty(u, p) /\ PropertyPutGet(u, p, "maintenance"))
                        => /\ NothingDone
                           /\ resp'.code \in NonOwnerAnswers(requireLandlord(u), TRUE)
                  /\ (ForeignProperty(u, p) /\ PropertyDeleteGet(u, p))
                        => /\ NothingDone
                           /\ resp'.code \in NonOwnerAnswers(requireLandlord(u), TRUE)]_vars

\* a 403 while an application, the property and a payment of another landlord
\* are stored
C13_Witness ==
    /\ resp.code = 403
    /\ inflight = EmptyBag
    /\ \E u \in Landlords :
          /\ \E a \in AppIds : ForeignApplication(u, a)
          /\ \E p \in PropIds : ForeignProperty(u, p)
          /\ \E id \in PayIds : ForeignPayment(u, id) /\ payments[id].status = "pending"
\* the elements of a list
Range(seq) == {seq[i] : i \in DOMAIN seq}

\* the Payment and Application items a response carries, at its top level or in
\* the lists of a dashboard
ListsOf(d) ==
    IF "recentApplications" \in DOMAIN d
    THEN Range(d.recentApplications) \cup Range(d.overduePayments)
            \cup Range(d.upcomingPayments)
    ELSE IF "activeApplications" \in DOMAIN d
    THEN Range(d.activeApplications) \cup Range(d.paymentHistory)
            \cup Range(d.upcomingPayments)
    ELSE {}
RecordsIn(response) ==
    {x \in Range(response.data) \cup UNION {ListsOf(d) : d \in Range(response.data)} :
        "renterId" \in DOMAIN x /\ "propertyId" \in DOMAIN x /\ "status" \in DOMAIN x
        /\ ("amount" \in DOMAIN x \/ "createdAt" \in DOMAIN x)}

\* C14: every Payment and every Application that a response of the read routes
\* (payment by id, application by id, payments of a rental agreement,
\* my-payments, my-applications, the dashboards) carries has the caller the
\* response goes to as its renterId or as its landlordId.
C14_ReadsOnlyOwnRecords ==
    \A x \in RecordsIn(resp) : resp.user \in {x.renterId, x.landlordId}

\* a renter is sent a dashboard listing an application and a payment while an
\* application and a payment of the other renter are stored
C14_Witness ==
    /\ resp.code = 200 /\ resp.user \in Renters
    /\ \E x, y \in RecordsIn(resp) : "amount" \in DOMAIN x /\ "amount" \notin DOMAIN y
    /\ \E a \in AppIds : OthersApplication(resp.user, a)
    /\ \E id \in PayIds : payments[id] # NoPayment /\ payments[id].renterId # resp.user

\* C15 as claimed: a fetch by id whose read succeeds is answered 404 when the
\* payment, application, property or user profile does not exist, and 403
\* when the payment or application is someone else's.
C15_MissingIs404ForeignIs403 ==
    [][/\ \A u \in Users, id \in PayIds :
             PaymentGet(u, id, TRUE)
                => /\ payments[id] = NoPayment => resp'.code = 404
                   /\ (payments[id] # NoPayment
                         /\ u \notin {payments[id].renterId, payments[id].landlordId})
                        => resp'.code = 403
       /\ \A u \in Users, a \in AppIds :
             ApplicationGet(u, a, TRUE)
                => /\ applications[a] = NoApplication => resp'.code = 404
                   /\ (applications[a] # NoApplication
                         /\ u \notin {applications[a].renterId, applications[a].landlordId})
                        => resp'.code = 403
       /\ \A p \in PropIds :
             (properties[p] = NoProperty /\ PropertyGet(p, TRUE)) => resp'.code = 404
       /\ \A u \in Users :
             (u \notin users /\ ProfileGet(u, TRUE)) => resp'.code = 404]_vars

\* the sum of amount over the payments of landlord u stored with status paid
RECURSIVE amountOver(_, _)
amountOver(tbl, S) ==
    IF S = {} THEN 0
    ELSE LET id == CHOOSE x \in S : TRUE IN tbl[id].amount + amountOver(tbl, S \ {id})
paidTo(tbl, u) == amountOver(tbl, {id \in DOMAIN tbl : tbl[id].landlordId = u
                                                       /\ tbl[id].status = "paid"})
IsLandlordDashboard(r) ==
    r.code = 200 /\ r.data # <<>> /\ "recentApplications" \in DOMAIN r.data[1]

\* C16 as claimed: the landlord dashboard's totalEarnings is the sum of amount
\* over exactly the caller's payments stored as paid, and a step that changes
\* one payment's status from paid to another status never increases that sum
\* and strictly decreases it unless the amount is 0.
C16_TotalIsPaidSumAndNeverGrows ==
    [][/\ IsLandlordDashboard(resp')
            => resp'.data[1].totalEarnings = paidTo(payments', resp'.user)
       /\ \A id \in PayIds :
             (/\ payments[id].status = "paid" /\ payments'[id].status # "paid"
              /\ \A o \in PayIds \ {id} : payments'[o] = payments[o])
               => LET u == payments[id].landlordId
                  IN  /\ paidTo(payments', u) <= paidTo(payments, u)
                      /\ payments[id].amount # 0 => paidTo(payments', u) < paidTo(payments, u)]_vars

\* the first half alone: the dashboard's total is the sum over the caller's paid payments
C16_TotalIsPaidSum ==
    IsLandlordDashboard(resp) => resp.data[1].totalEarnings = paidTo(payments, resp.user)

\* a step of a dashboard or stats request: such a request enters, advances in
\* or leaves the requests in flight, or is answered at once
ReadAnswers == {"Landlord access required", "Renter access required",
                "Failed to fetch dashboard", "Failed to fetch statistics"}
Moved == BagToSet(inflight (-) inflight') \cup BagToSet(inflight' (-) inflight)
ReadStep ==
    \/ Moved # {} /\ \A r \in Moved : r.op \in Reads
    \/ Moved = {} /\ resp'.message \in ReadAnswers

\* C18: every step of a landlord dashboard, renter dashboard or stats request
\* leaves every record of the properties, applications, payments and users
\* tables unchanged, whatever other requests are in flight between its steps.
C18_ReadsChangeNothing ==
    [][ReadStep => UNCHANGED <<properties, propsCreated, applications, payments, users>>]_vars

\* a renter is sent statistics with a non-zero total spent while a payment is
\* being created or its status changed
C18_Witness ==
    /\ resp.code = 200 /\ resp.data # <<>> /\ "totalSpent" \in DOMAIN resp.data[1]
    /\ resp.data[1].totalSpent # 0
    /\ \E r \in InFlight : r.op \notin Reads

Failure(r) == r.code = 500 /\ r.data = <<>>
pendingOf(S) == {id \in S : payments[id].status = "pending"}
IsRenterDashboard(r) ==
    r.code = 200 /\ r.data # <<>> /\ "activeApplications" \in DOMAIN r.data[1]

\* a dashboard that accounts for every record of its caller in the three collections
Complete(r) ==
    /\ IsLandlordDashboard(r)
         => /\ r.data[1].totalProperties = Cardinality(ofLandlord(properties, r.user))
            /\ Len(r.data[1].recentApplications)
                  = Cardinality(ofLandlord(applications, r.user))
            /\ Len(r.data[1].overduePayments) + Len(r.data[1].upcomingPayments)
                  = Cardinality(pendingOf(ofLandlord(payments, r.user)))
    /\ IsRenterDashboard(r)
         => /\ Len(r.data[1].activeApplications)
                  = Cardinality({a \in ofRenter(applications, r.user) :
                                    applications[a].status = "pending"})
            /\ Len(r.data[1].currentRentals) = Cardinality(activeAgreements(r.user))
            /\ Len(r.data[1].upcomingPayments)
                  = Cardinality(pendingOf(ofRenter(payments, r.user)))

\* C19: when the first, second or third collection fetch of a landlord or
\* renter dashboard request fails, the request ends with one response of
\* status 500 that carries no data; and every dashboard that is sent accounts
\* for all the caller's records in all three collections.
C19_FailedFetchIsOneFailure ==
    [][/\ \A u \in Landlords :
             LandlordDashboardProperties(u, FALSE) => Failure(resp') /\ inflight' = inflight
       /\ \A u \in Renters :
             RenterDashboardApplications(u, FALSE) => Failure(resp') /\ inflight' = inflight
       /\ \A r \in InFlight :
             (\/ LandlordDashboardApplications(r, FALSE)
              \/ LandlordDashboardPayments(r, FALSE)
              \/ RenterDashboardRentalAgreements(r, FALSE)
              \/ RenterDashboardPayments(r, FALSE))
               => Failure(resp') /\ inflight' = inflight (-) SetToBag({r})
       /\ Complete(resp')]_vars

\* a dashboard request failed while its caller has an application and a payment stored
C19_Witness ==
    /\ Failure(resp) /\ resp.message = "Failed to fetch dashboard" /\ Idle
    /\ \E a \in AppIds, id \in PayIds :
          /\ applications[a] # NoApplication /\ payments[id] # NoPayment
          /\ applications[a].landlordId = payments[id].landlordId

\* the place of record x in the list the store returned
place(returned, x) == CHOOSE i \in 1..Len(returned) : returned[i].id = x.id
\* x comes before y: created later, or at the same time and returned earlier
ranksBefore(returned, x, y) ==
    \/ getTime(x.createdAt) > getTime(y.createdAt)
    \/ /\ getTime(x.createdAt) = getTime(y.createdAt)
       /\ place(returned, x) < place(returned, y)
NewestOf(returned, recent, u) ==
    /\ {returned[i].id : i \in 1..Len(returned)} = ofLandlord(applications, u)
    /\ Len(returned) = Cardinality(ofLandlord(applications, u))
    /\ Len(recent) = IF Len(returned) < 5 THEN Len(returned) ELSE 5
    /\ \A i \in 1..Len(recent) : recent[i] \in Range(returned)
    /\ \A i, j \in 1..Len(recent) : i < j => ranksBefore(returned, recent[i], recent[j])
    /\ \A x \in Range(returned) \ Range(recent) :
          \A y \in Range(recent) : ranksBefore(returned, y, x)

\* C20: the recentApplications of a landlord dashboard are the 5 applications
\* addressed to the caller that were created last (all of them when there are
\* fewer than 5), newest first, and applications created at the same time
\* stand in the order in which the scan returned them.
C20_RecentAreNewestFive ==
    [][\A r \in InFlight :
          (/\ r.op = "landlordDashboard" /\ r.pc = "payments"
           /\ r \notin BagToSet(inflight') /\ IsLandlordDashboard(resp'))
            => NewestOf(r.applicationsResult, resp'.data[1].recentApplications, r.user)]_vars

\* a landlord with more than 5 applications is sent 5 of them, not all created
\* at the same time, two of equal creation time in descending order of id
C20_Witness ==
    /\ IsLandlordDashboard(resp)
    /\ Cardinality(ofLandlord(applications, resp.user)) > RecentApplicationsCap
    /\ LET recent == resp.data[1].recentApplications
       IN  /\ Len(recent) = RecentApplicationsCap
           /\ recent[1].createdAt # recent[RecentApplicationsCap].createdAt
           /\ \E i \in 1..(RecentApplicationsCap - 1) :
                 /\ recent[i].createdAt = recent[i + 1].createdAt
                 /\ recent[i].id > recent[i + 1].id

\* the time value of each stored payment's due date
dueOf(tbl) == [id \in DOMAIN tbl |-> getTime(tbl[id].dueDate)]
\* the pending payments of landlord u whose due date is a date
pendingDue(tbl, u) ==
    {id \in DOMAIN tbl : /\ tbl[id].landlordId = u /\ tbl[id].status = "pending"
                         /\ getTime(tbl[id].dueDate) # NaN}
ids(list) == {list[i].id : i \in 1..Len(list)}
\* list holds stored payments, each once, in ascending order of due date d
StoredAscending(list, tbl, d) ==
    /\ Cardinality(ids(list)) = Len(list)
    /\ \A i \in 1..Len(list) : list[i] = Item(list[i].id, tbl[list[i].id])
    /\ \A i \in 1..(Len(list) - 1) : d[list[i].id] <= d[list[i + 1].id]

OverdueAndUpcoming(r, tbl, t) ==
    LET overdue == r.data[1].overduePayments
        upcoming == r.data[1].upcomingPayments
        d == dueOf(tbl)
        pending == pendingDue(tbl, r.user)
        Overdue == {id \in pending : d[id] < t}
        Upcoming == {id \in pending : d[id] >= t}
        listed == ids(upcoming)
    IN  /\ StoredAscending(overdue, tbl, d) /\ ids(overdue) = Overdue
        /\ StoredAscending(upcoming, tbl, d) /\ listed \subseteq Upcoming
        /\ Len(upcoming) = IF Cardinality(Upcoming) < 10 THEN Cardinality(Upcoming) ELSE 10
        /\ \A x \in Upcoming \ listed : d[upcoming[Len(upcoming)].id] <= d[x]

\* the clock passes the due date of pending payments: each was not overdue and
\* was upcoming (or beyond the 10 listed), and is overdue and not upcoming
MovesToOverdue(u, order) ==
    LET d == dueOf(payments)
        passed == {id \in pendingDue(payments, u) : now <= d[id] /\ d[id] < now'}
        pays == Items(payments, order)
        upcomingBefore == ids(upcomingPayments(pays, now, UpcomingPaymentsCap))
        overdueBefore == ids(overduePayments(pays, now))
        upcomingAfter == ids(upcomingPayments(pays, now', UpcomingPaymentsCap))
        overdueAfter == ids(overduePayments(pays, now'))
    IN  /\ passed \subseteq upcomingBefore \/ Cardinality(upcomingBefore) = 10
        /\ passed \cap overdueBefore = {}
        /\ passed \subseteq overdueAfter
        /\ passed \cap upcomingAfter = {}

paidAt(x) == getTime(IF x.paidDate # "" THEN x.paidDate ELSE x.createdAt)
\* x and y both have a time of payment, and x was paid before y
paidEarlier(x, y) == paidAt(x) # NaN /\ paidAt(y) # NaN /\ paidAt(x) < paidAt(y)
atMost(n, cap) == IF n < cap THEN n ELSE cap

\* C21 as claimed: a renter dashboard's paymentHistory holds only the caller's
\* paid payments, at most 10, no payment listed before one that was paid
\* later and none left out for one paid earlier; its upcomingPayments holds
\* only the caller's pending payments due at or after now, at most 5, in
\* ascending order of due date.
C21_HistoryAndUpcomingSorted ==
    IsRenterDashboard(resp) =>
        LET history == resp.data[1].paymentHistory
            upcoming == resp.data[1].upcomingPayments
            d == dueOf(payments)
            paid == {id \in ofRenter(payments, resp.user) : payments[id].status = "paid"}
            coming == {id \in pendingOf(ofRenter(payments, resp.user)) :
                          d[id] # NaN /\ d[id] >= now}
        IN  /\ Cardinality(ids(history)) = Len(history) /\ ids(history) \subseteq paid
            /\ Len(history) = atMost(Cardinality(paid), 10)
            /\ \A i \in 1..Len(history) :
                  /\ history[i] = Item(history[i].id, payments[history[i].id])
                  /\ \A j \in 1..Len(history) : i < j => ~paidEarlier(history[i], history[j])
                  /\ \A x \in paid \ ids(history) : ~paidEarlier(history[i], payments[x])
            /\ StoredAscending(upcoming, payments, d) /\ ids(upcoming) \subseteq coming
            /\ Len(upcoming) = atMost(Cardinality(coming), 5)
            /\ \A x \in coming \ ids(upcoming) : d[upcoming[Len(upcoming)].id] <= d[x]

\* the same when every paid payment of the caller has a time of payment
C21_SortedWhenDated ==
    (\A id \in ofRenter(payments, resp.user) :
        payments[id].status = "paid" => paidAt(payments[id]) # NaN)
      => C21_HistoryAndUpcomingSorted

\* the count a dashboard reports for a status, 0 for a status it does not report
reported(by, st) == IF st \in DOMAIN by THEN by[st] ELSE 0

\* C22 as claimed: the per-status counts of a landlord dashboard are the numbers
\* of the caller's scanned properties in each status, and over the statuses a
\* Property can hold (available, rented, maintenance, inactive) they add up to
\* totalProperties.
C22_CountsAddUpToTotal ==
    [][\A r \in InFlight :
          (/\ r.op = "landlordDashboard" /\ r.pc = "payments"
           /\ r \notin BagToSet(inflight') /\ IsLandlordDashboard(resp'))
            => LET by == resp'.data[1].propertiesByStatus
                   scanned == r.propertiesResult
               IN  /\ resp'.data[1].totalProperties = Len(scanned)
                   /\ \A st \in DOMAIN by :
                         by[st] = Cardinality({i \in 1..Len(scanned) : scanned[i].status = st})
                   /\ reported(by, "available") + reported(by, "rented")
                         + reported(by, "maintenance") + reported(by, "inactive")
                        = resp'.data[1].totalProperties]_vars

\* the answer of a landlord-only route to a caller who is no landlord
notLandlord(u) == IF u = NoUser THEN 401 ELSE 403

\* C23: a landlord-only route (create payment, payment status, bulk update,
\* application status, property create, update, delete) answers 401 to a
\* caller without identity and 403 to a renter, a renter-only route (submit,
\* withdraw) answers 403 to a landlord, and in each case the request is not
\* taken up and no table changes.
C23_WrongRoleIsTurnedAway ==
    [][/\ \A u \in Callers \ Landlords :
            (\/ PropertyCreate(u, TRUE)
             \/ PaymentCreateGet(u, 1, TRUE, 5, "2026-01-02")
             \/ BulkUpdateStart(u, <<1>>, "cancelled", "", FALSE)
             \/ \E a \in AppIds : AppStatusGet(u, a, "approved", FALSE)
             \/ \E p \in PropIds : PropertyPutGet(u, p, "maintenance") \/ PropertyDeleteGet(u, p)
             \/ \E id \in PayIds : PaymentStatusGet(u, id, "paid", "", FALSE))
              => NothingDone /\ resp'.code = notLandlord(u)
       /\ \A u \in Landlords :
            (\/ \E p \in PropIds : SubmitGetProperty(u, p, TRUE)
             \/ \E a \in AppIds : WithdrawGet(u, a))
              => NothingDone /\ resp'.code = 403]_vars

\* a caller without identity is answered 401 while a property, an application
\* and a payment are stored
C23_Witness ==
    /\ resp.code = 401 /\ Idle
    /\ \E p \in PropIds : properties[p] # NoProperty
    /\ \E a \in AppIds : applications[a] # NoApplication
    /\ \E id \in PayIds : payments[id] # NoPayment

\* C24: a logout request with an access token is answered with success whether
\* the identity provider's sign-out succeeds or fails, and a request without
\* one is answered 400; no table changes.
C24_LogoutAlwaysSucceeds ==
    [][\A t \in AccessTokens, ok \in BOOLEAN :
          Logout(t, ok)
            => /\ t # "" => resp' = Message(200, "Logged out successfully")
               /\ t = "" => resp'.code = 400
               /\ NothingDone]_vars

\* a logout was answered with success while a profile is stored
C24_Witness ==
    resp.message = "Logged out successfully" /\ resp.code = 200 /\ users # {}

\* the approval r, its application write done, takes its property write step
PropertyWriteStep(r) == r.op = "appStatus" /\ r.pc = "propUpdate" /\ Stepped(r)

C26_WithdrawNeverOverwritesApproval ==
    [][\A r \in InFlight :
          (r.op = "withdraw" /\ Stepped(r) /\ resp'.code = 200
             /\ applications'[r.id].status = "withdrawn")
            => ~(/\ applications[r.id].status = "approved"
                 /\ properties[applications[r.id].propertyId].status = "rented")]_vars

\* C27 as claimed: in every reachable state each property has at most one
\* application with status approved.
C27_OneApprovalPerProperty ==
    \A a, b \in AppIds :
        (/\ applications[a].status = "approved" /\ applications[b].status = "approved"
         /\ applications[a].propertyId = applications[b].propertyId)
          => a = b

\* the request r is taken up in this step
Entered(r) == CopiesIn(r, inflight') > CopiesIn(r, inflight)

\* C28: a submission is taken up past its property check only when the
\* property exists and is available, and it remembers that property's
\* landlord; an Application record is created only by such a submission, for
\* its property, with that landlord and with status pending; and a renter's
\* well-formed submission for a property that is rented (its read succeeding)
\* is answered 400 and writes nothing.
C28_OnlyForAvailableProperty ==
    [][/\ \A r \in BagToSet(inflight') :
             (r.op = "submit" /\ r.pc = "scan" /\ Entered(r))
               => /\ properties[r.id] # NoProperty /\ properties[r.id].status = "available"
                  /\ r.snapLandlord = properties[r.id].landlordId
       /\ \A a \in AppIds :
             (applications[a] = NoApplication /\ applications'[a] # NoApplication)
               => /\ applications'[a].status = "pending"
                  /\ \E r \in InFlight :
                        /\ r.op = "submit" /\ r.pc = "put" /\ Stepped(r)
                        /\ applications'[a].propertyId = r.id
                        /\ applications'[a].renterId = r.user
                        /\ applications'[a].landlordId = r.snapLandlord
       /\ \A u \in Renters, p \in PropIds :
             (properties[p].status = "rented" /\ SubmitGetProperty(u, p, TRUE)
                /\ resp'.code # 500)
               => resp'.code = 400 /\ NothingDone]_vars

\* a submission for a property that an approval has set to rented was
\* answered 400
C28_Witness ==
    /\ resp.code = 400 /\ inflight = EmptyBag
    /\ \E a \in AppIds :
          /\ applications[a].status = "approved"
          /\ properties[applications[a].propertyId].status = "rented"
    /\ \A a \in AppIds : applications[a].status \in {"approved", "none"}

\* ---------------------------------------------------------------- GET /payments/landlord/overdue, /landlord/upcoming
\* The store compares strings by their bytes.  The strings of the model are
\* spelled out character by character, with the characters' codes.
Code ==
    [c \in {"-", ".", "/", "0", "1", "2", "3", "4", "5", "6", "7", "8", "9", ":",
            "T", "Z", "n", "o", "s"} |->
        CASE c = "-" -> 45 [] c = "." -> 46 [] c = "/" -> 47 [] c = "0" -> 48
          [] c = "1" -> 49 [] c = "2" -> 50 [] c = "3" -> 51 [] c = "4" -> 52
          [] c = "5" -> 53 [] c = "6" -> 54 [] c = "7" -> 55 [] c = "8" -> 56
          [] c = "9" -> 57 [] c = ":" -> 58 [] c = "T" -> 84 [] c = "Z" -> 90
          [] c = "n" -> 110 [] c = "o" -> 111 [] c = "s" -> 115]

spellDate(month, t) == <<"2", "0", "2", "6", "-", "0", month, "-", "0", ToString(t)>>
spellTime == <<"T", "0", "0", ":", "0", "0", ":", "0", "0", ".", "0", "0", "0", "Z">>

\* new Date().toISOString().split('T')[0]
today(t) == "2026-01-0" \o ToString(t)
\* the same day of the next month, as YYYY-MM-DD
nextMonthStr(t) == "2026-02-0" \o ToString(t)

Spelled ==
    [s \in {today(t) : t \in 1..9} |-> spellDate("1", CHOOSE t \in 1..9 : s = today(t))]
    @@ [s \in {nextMonthStr(t) : t \in 1..9} |->
            spellDate("2", CHOOSE t \in 1..9 : s = nextMonthStr(t))]
    @@ [s \in {toISOString(t) : t \in 1..9} |->
            spellDate("1", CHOOSE t \in 1..9 : s = toISOString(t)) \o spellTime]
    @@ ("01/03/2026" :> <<"0", "1", "/", "0", "3", "/", "2", "0", "2", "6">>)
    @@ ("soon" :> <<"s", "o", "o", "n">>)

\* a < b in the store's order of strings
bytesLess(a, b) ==
    LET x == Spelled[a]
        y == Spelled[b]
    IN \E k \in 1..Len(x) + 1 :
          /\ k <= Len(y)
          /\ \A i \in 1..k - 1 : x[i] = y[i]
          /\ k > Len(x) \/ Code[x[k]] < Code[y[k]]

\* a BETWEEN lo AND hi
bytesBetween(a, lo, hi) == ~bytesLess(a, lo) /\ ~bytesLess(hi, a)

stored(tbl) == {id \in DOMAIN tbl : tbl[id] # NoPayment}

\* the limits offered: one item, and the default of ten
Limits == {1, 10}

\* scan with Limit: the store evaluates at most limit items, in its own order,
\* and returns those of them the filter keeps
LandlordOverdue(u, limit, ok) ==
    /\ UNCHANGED <<properties, propsCreated, applications, constAssignThrows, payments, users, now>>
    /\ UNCHANGED inflight
    /\ IF requireLandlord(u) # 0 THEN resp' = Response(requireLandlord(u))
       ELSE IF ~ok THEN resp' = Message(500, "Failed to fetch overdue payments")
       ELSE \E order \in ScanOrders(stored(payments)) :
               resp' = Data(u, sort(filter(slice(Items(payments, order), limit),
                                           LAMBDA p : /\ p.landlordId = u
                                                      /\ p.status = "pending"
                                                      /\ bytesLess(p.dueDate, today(now))),
                                    dueDateAscending))

LandlordUpcoming(u, limit, ok) ==
    /\ UNCHANGED <<properties, propsCreated, applications, constAssignThrows, payments, users, now>>
    /\ UNCHANGED inflight
    /\ IF requireLandlord(u) # 0 THEN resp' = Response(requireLandlord(u))
       ELSE IF ~ok THEN resp' = Message(500, "Failed to fetch upcoming payments")
       ELSE \E order \in ScanOrders(stored(payments)) :
               resp' = Data(u, sort(filter(slice(Items(payments, order), limit),
                                           LAMBDA p : /\ p.landlordId = u
                                                      /\ p.status = "pending"
                                                      /\ bytesBetween(p.dueDate, today(now),
                                                                      nextMonthStr(now))),
                                    dueDateAscending))

\* Payments are created with due dates written in several ways, some are paid,
\* and the clock advances; the landlord's dashboard and the two list routes
\* read them.  A request is served to its end before the next one arrives.
ListDueDates == {"2026-01-02", "2026-01-02T00:00:00.000Z", "01/03/2026", "soon"}

NextDue ==
    \/ \E u \in Landlords, g \in AgreementIds, d \in ListDueDates :
          Idle /\ PaymentCreateGet(u, g, TRUE, 5, d)
    \/ \E r \in InFlight : PaymentCreatePut(r)
    \/ \E u \in Landlords, id \in PayIds : Idle /\ PaymentStatusGet(u, id, "paid", "", FALSE)
    \/ \E r \in InFlight : PaymentStatusUpdate(r)
    \/ Idle /\ Tick
    \/ \E u \in Users, ok \in BOOLEAN : Idle /\ LandlordDashboardProperties(u, ok)
    \/ \E r \in InFlight, ok \in BOOLEAN : LandlordDashboardApplications(r, ok)
    \/ \E r \in InFlight, ok \in BOOLEAN : LandlordDashboardPayments(r, ok)
    \/ \E u \in Callers, limit \in Limits, ok \in BOOLEAN : Idle /\ LandlordOverdue(u, limit, ok)
    \/ \E u \in Callers, limit \in Limits, ok \in BOOLEAN : Idle /\ LandlordUpcoming(u, limit, ok)

SpecDue == Init /\ [][NextDue]_vars

\* C29: at one instant and for one landlord, the payments the dashboard calls
\* overdue are the payments GET /payments/landlord/overdue returns when its
\* limit covers every stored payment, and none of them is returned by
\* GET /payments/landlord/upcoming.
dashboardOverdue(u) ==
    ids(overduePayments(Items(payments, ascending(ofLandlord(payments, u))), now))

C29_ListsAgreeWithDashboard ==
    [][\A u \in Landlords, limit \in Limits :
          /\ (limit >= Cardinality(stored(payments)) /\ LandlordOverdue(u, limit, TRUE))
                => ids(resp'.data) = dashboardOverdue(u)
          /\ (limit >= Cardinality(stored(payments)) /\ LandlordUpcoming(u, limit, TRUE))
                => ids(resp'.data) \cap dashboardOverdue(u) = {}]_vars

\* C29, for due dates written as the clock writes them: a calendar date or a
\* full timestamp
isoWritten == \A id \in stored(payments) : payments[id].dueDate \in DOMAIN Parsed \ {"01/03/2026"}

C29_ListsAgreeWhenIsoWritten ==
    [][\A u \in Landlords, limit \in Limits :
          /\ (isoWritten /\ limit >= Cardinality(stored(payments))
                /\ LandlordOverdue(u, limit, TRUE))
                => ids(resp'.data) = dashboardOverdue(u)
          /\ (limit >= Cardinality(stored(payments)) /\ LandlordUpcoming(u, limit, TRUE))
                => ids(resp'.data) \cap dashboardOverdue(u) = {}]_vars

\* C30: every stored payment names an existing rental agreement and carries that
\* agreement's landlord, renter and property; a payment comes into being only
\* in the create request of the agreement's landlord, with status pending; and
\* no step changes the agreement or the owners of a stored payment.
agreementOf(p) == rentalAgreements[p.rentalAgreementId]
owners(p) == <<p.rentalAgreementId, p.landlordId, p.renterId, p.propertyId>>

C30_PaymentsBelongToTheirAgreement ==
    [][\A id \in PayIds :
          /\ payments'[id] # NoPayment =>
                /\ payments'[id].rentalAgreementId \in AgreementIds
                /\ agreementOf(payments'[id]) # NoAgreement
                /\ payments'[id].landlordId = agreementOf(payments'[id]).landlordId
                /\ payments'[id].renterId = agreementOf(payments'[id]).renterId
                /\ payments'[id].propertyId = agreementOf(payments'[id]).propertyId
          /\ (payments[id] = NoPayment /\ payments'[id] # NoPayment) =>
                /\ payments'[id].status = "pending"
                /\ \E r \in InFlight :
                      /\ PaymentCreatePut(r)
                      /\ r.user = agreementOf(payments'[id]).landlordId
          /\ payments[id] # NoPayment =>
                /\ payments'[id] # NoPayment
                /\ owners(payments'[id]) = owners(payments[id])]_vars

\* both landlords have created a payment and the first has been marked paid
C30_Witness ==
    /\ payments[1] # NoPayment /\ payments[2] # NoPayment
    /\ payments[1].landlordId # payments[2].landlordId
    /\ payments[1].status = "paid"
    /\ resp.code = 200

====
